---- MODULE Spec2Model ----
(***************************************************************************)
(* A model of hw/qdev.c: the device-kind registry, the bus/device tree,    *)
(* the device lifecycle with its hot-plug gate, and the tree walks.        *)
(*                                                                         *)
(* Strings are sequences of one-character strings, so that formatting      *)
(* ("%s.%d", lower-casing) and scanning ("%127[^/]%n") are computed.       *)
(* Pointers are positive integers, NULL is 0; a NULL string is NULLSTR.    *)
(***************************************************************************)
EXTENDS Integers, Sequences, FiniteSets, TLC

(* ------------------------------ bounds -------------------------------- *)

\* devices allocated at one time
MaxDev == 3
\* buses allocated at one time, the root bus included
MaxBus == 3
\* buses one init callback creates under its device
MaxInitBus == 1
\* devices and buses allocated at one time, together
MaxNodes == 4
\* bytes in a blob that is encoded, characters in a text that is decoded
MaxSrcLen == 4
MaxStrLen == 4

(* ------------------------------ strings ------------------------------- *)

NULL == 0
NULLSTR == <<"NULL">>

Digit(n) == <<"0", "1", "2", "3", "4", "5", "6", "7", "8", "9">>[n + 1]

RECURSIVE Decimal(_)
\* "%d" of a non-negative int
Decimal(n) == IF n < 10 THEN <<Digit(n)>> ELSE Decimal(n \div 10) \o <<Digit(n % 10)>>

qemu_tolower(c) ==
    CASE c = "P" -> "p" [] c = "C" -> "c" [] c = "I" -> "i"
      [] c = "S" -> "s" [] c = "Y" -> "y" [] c = "T" -> "t"
      [] c = "E" -> "e" [] c = "M" -> "m" [] OTHER -> c

ToLower(s) == [i \in 1..Len(s) |-> qemu_tolower(s[i])]

(* --------------------------- kinds (descriptors) ----------------------- *)

\* BusInfo objects, by address; the names are those of the BusInfo records
system_bus_info == 1
pci_bus_info == 2
BusInfos == <<[name |-> <<"S", "y", "s", "t", "e", "m">>],
              [name |-> <<"P", "C", "I">>]>>

s_main_system_bus == <<"m", "a", "i", "n", "-", "s", "y", "s", "t", "e", "m", "-", "b", "u", "s">>
s_blinker == <<"b", "l", "i", "n", "k", "e", "r">>
s_bridge == <<"b", "r", "i", "d", "g", "e">>
s_br == <<"b", "r">>
s_nic == <<"n", "i", "c">>
s_host == <<"h", "o", "s", "t">>
s_led == <<"l", "e", "d">>
s_rate == <<"r", "a", "t", "e">>
s_label == <<"l", "a", "b", "e", "l">>
s_mac == <<"m", "a", "c">>

\* Property: name and whether its PropertyInfo has a free callback
prop_rate == [name |-> s_rate, free |-> FALSE]
prop_label == [name |-> s_label, free |-> TRUE]
prop_mac == [name |-> s_mac, free |-> TRUE]

\* DeviceInfo records.  vmsd: has a state descriptor; unplug: "none", "simple"
\* (qdev_simple_unplug_cb) or "deferred" (the callback frees the device later);
\* init_bus: the BusInfo of the buses the kind's init callback creates; exit:
\* has an exit callback.
info_blinker ==
    [name |-> s_blinker, alias |-> NULLSTR, bus_info |-> system_bus_info,
     no_user |-> FALSE, props |-> <<prop_rate, prop_label>>, vmsd |-> TRUE,
     unplug |-> "simple", init_bus |-> NULL, exit |-> TRUE]
info_bridge ==
    [name |-> s_bridge, alias |-> s_br, bus_info |-> system_bus_info,
     no_user |-> FALSE, props |-> <<>>, vmsd |-> FALSE, unplug |-> "deferred",
     init_bus |-> pci_bus_info, exit |-> FALSE]
info_nic ==
    [name |-> s_nic, alias |-> NULLSTR, bus_info |-> pci_bus_info,
     no_user |-> FALSE, props |-> <<prop_mac>>, vmsd |-> TRUE,
     unplug |-> "simple", init_bus |-> NULL, exit |-> TRUE]
info_host ==
    [name |-> s_host, alias |-> NULLSTR, bus_info |-> system_bus_info,
     no_user |-> TRUE, props |-> <<>>, vmsd |-> FALSE, unplug |-> "none",
     init_bus |-> NULL, exit |-> FALSE]
\* a kind whose alias is the name of another kind
info_led ==
    [name |-> s_led, alias |-> s_blinker, bus_info |-> system_bus_info,
     no_user |-> FALSE, props |-> <<>>, vmsd |-> FALSE, unplug |-> "simple",
     init_bus |-> NULL, exit |-> FALSE]
\* a kind that has the name of another kind, on another bus; the start-up code
\* does not register it
info_nic_sys ==
    [name |-> s_nic, alias |-> NULLSTR, bus_info |-> system_bus_info,
     no_user |-> FALSE, props |-> <<>>, vmsd |-> FALSE, unplug |-> "simple",
     init_bus |-> NULL, exit |-> FALSE]

\* DeviceInfo objects, by address
DeviceInfos ==
    <<info_blinker, info_bridge, info_nic, info_host, info_led, info_nic_sys>>

\* the registry after start-up, as the chain of next pointers from the list
\* head: qdev_register prepends, so the kind registered last comes first
device_info_list == <<5, 4, 3, 2, 1>>

Min(S) == CHOOSE x \in S : \A y \in S : x <= y

\* F of the value of e, which is computed once: a local variable of the C code
With(e, F(_)) == CHOOSE r \in {F(v) : v \in {e}} : TRUE

\* first element of a list passing a test, as a for loop with return finds it
FirstMatch(list, Test(_)) ==
    LET I == {i \in 1..Len(list) : Test(list[i])}
    IN IF I = {} THEN NULL ELSE list[Min(I)]

qdev_find_info(bus_info, name) ==
    LET byName(p) == /\ (bus_info = NULL \/ DeviceInfos[p].bus_info = bus_info)
                     /\ DeviceInfos[p].name = name
        byAlias(p) == /\ (bus_info = NULL \/ DeviceInfos[p].bus_info = bus_info)
                      /\ DeviceInfos[p].alias # NULLSTR
                      /\ DeviceInfos[p].alias = name
        n == FirstMatch(device_info_list, byName)
    IN IF n # NULL THEN n ELSE FirstMatch(device_info_list, byAlias)

(* ------------------------------- state -------------------------------- *)

\* the function with no argument: an empty registry, an empty heap
Empty == [x \in {} |-> 0]

VARIABLES
    devs,              \* DeviceState objects: address -> fields, the live ones
    buses,             \* BusState objects: address -> fields, the live ones
    main_system_bus,   \* the root bus pointer, NULL until first use
    qdev_hotplug,      \* 1 once machine creation is done
    qdev_hot_added,
    qdev_hot_removed,
    vmstate,           \* migration registry: device -> number of registrations
    reset_handlers,    \* host reset registry: bus -> number of registrations
    device_opts,       \* the "device" option group: live bag -> its id
    aborted,           \* "" while running, else why the process died
    registry,          \* device_info_list, the list head, and each kind's next
    device_state,      \* the device the introspector is shown: vmsd and opaque
    b64                \* the buffers of the base64 coder and what it returned

vars == <<devs, buses, main_system_bus, qdev_hotplug, qdev_hot_added,
          qdev_hot_removed, vmstate, reset_handlers, device_opts, aborted,
          registry, device_state, b64>>

\* The program state as one value h, so that the C functions can be written as
\* functions from state to state.  Five more fields carry what a call hands
\* back: ret its return value, err the error it reported, freed, per device
\* it freed, how often it called each property's free callback, exited, per
\* device, how often it called the kind's exit callback, and released, per
\* option bag, how often it called qemu_opts_del on it.
Heap ==
    [devs |-> devs, buses |-> buses, main_system_bus |-> main_system_bus,
     qdev_hotplug |-> qdev_hotplug, qdev_hot_added |-> qdev_hot_added,
     qdev_hot_removed |-> qdev_hot_removed, vmstate |-> vmstate,
     reset_handlers |-> reset_handlers, device_opts |-> device_opts,
     aborted |-> aborted, ret |-> 0, err |-> <<>>, freed |-> Empty,
     exited |-> Empty, released |-> Empty]

Abort(h, why) == IF h.aborted # "" THEN h ELSE [h EXCEPT !.aborted = why]

\* a multiset as a function to positive counts
BagAdd(b, x) == IF x \in DOMAIN b THEN [b EXCEPT ![x] = @ + 1] ELSE b @@ (x :> 1)
BagRemoveOne(b, x) ==
    IF x \notin DOMAIN b THEN b
    ELSE IF b[x] > 1 THEN [b EXCEPT ![x] = @ - 1]
    ELSE [y \in DOMAIN b \ {x} |-> b[y]]
BagRemoveAll(b, x) == [y \in DOMAIN b \ {x} |-> b[y]]

Drop(f, x) == [y \in DOMAIN f \ {x} |-> f[y]]

\* qemu_mallocz: an address that holds no live object and that no live object
\* still points to
NewDev(h) ==
    Min({a \in 1..(MaxDev + MaxBus + 1) :
            /\ a \notin DOMAIN h.devs
            /\ \A b \in DOMAIN h.buses : h.buses[b].parent # a
            /\ a \notin DOMAIN h.vmstate})
NewBus(h) ==
    Min({a \in 1..(MaxDev + MaxBus + 1) :
            /\ a \notin DOMAIN h.buses
            /\ \A d \in DOMAIN h.devs : h.devs[d].parent_bus # a
            /\ a \notin DOMAIN h.reset_handlers})

\* QLIST_REMOVE of one element of a list
ListRemove(list, x) == SelectSeq(list, LAMBDA y : y # x)

(* ------------------------------ registry ------------------------------- *)

\* no kind registered: the list head and every next pointer are NULL
NoKinds == [device_info_list |-> NULL, next |-> [k \in 1..Len(DeviceInfos) |-> NULL]]

\* g: the registry with the field aborted.  Every kind here has an instance
\* size of at least sizeof(DeviceState), so that the assert of line 51 holds.
qdev_register(g, info) ==
    IF g.next[info] # NULL THEN [g EXCEPT !.aborted = "assert(!info->next)"]
    ELSE [g EXCEPT !.next[info] = g.device_info_list, !.device_info_list = info]

RECURSIVE Registered(_)
\* the registry after qdev_register of the kinds of a list, in its order
Registered(kinds) ==
    IF kinds = <<>> THEN NoKinds @@ [aborted |-> ""]
    ELSE qdev_register(Registered(SubSeq(kinds, 1, Len(kinds) - 1)), kinds[Len(kinds)])

\* the result of a loop that never ends
Hangs == -1

RECURSIVE FindInfoLoop(_, _, _, _, _, _)
\* one for loop of qdev_find_info from info on, over names or over aliases.
\* The loop body changes nothing, so a loop that has made more steps than
\* there are kinds is in a cycle of next pointers and never ends.
FindInfoLoop(g, info, bus_info, name, aliases, steps) ==
    IF info = NULL THEN NULL
    ELSE IF steps > Len(DeviceInfos) THEN Hangs
    ELSE IF /\ (bus_info = NULL \/ DeviceInfos[info].bus_info = bus_info)
            /\ IF aliases
               THEN DeviceInfos[info].alias # NULLSTR /\ DeviceInfos[info].alias = name
               ELSE DeviceInfos[info].name = name
    THEN info
    ELSE FindInfoLoop(g, g.next[info], bus_info, name, aliases, steps + 1)

\* qdev_find_info with the loop over the aliases first
qdev_find_info_in_alias_first(g, bus_info, name) ==
    With(FindInfoLoop(g, g.device_info_list, bus_info, name, TRUE, 0), LAMBDA n :
        IF n # NULL THEN n
        ELSE FindInfoLoop(g, g.device_info_list, bus_info, name, FALSE, 0))

\* qdev_find_info over the registry g
qdev_find_info_in(g, bus_info, name) ==
    With(FindInfoLoop(g, g.device_info_list, bus_info, name, FALSE, 0), LAMBDA n :
        IF n # NULL THEN n
        ELSE FindInfoLoop(g, g.device_info_list, bus_info, name, TRUE, 0))

(* --------------------------- buses: creation --------------------------- *)

\* vmstate_register_with_alias_id / vmstate_unregister / qemu_register_reset /
\* qemu_unregister_reset / qemu_opts_del: the collaborators' registries
vmstate_register_with_alias_id(h, dev) == [h EXCEPT !.vmstate = BagAdd(@, dev)]
vmstate_unregister(h, dev) == [h EXCEPT !.vmstate = BagRemoveAll(@, dev)]
qemu_register_reset(h, bus) == [h EXCEPT !.reset_handlers = BagAdd(@, bus)]
qemu_unregister_reset(h, bus) == [h EXCEPT !.reset_handlers = BagRemoveOne(@, bus)]
qemu_opts_del(h, opts) ==
    [h EXCEPT !.device_opts = Drop(@, opts), !.released = BagAdd(@, opts)]

\* the name a bus gets: supplied, "<parent id>.<n>", or "<info name>.<n>"
\* lower-cased, n the parent's child-bus count (0 without a parent)
BusName(h, info, parent, name) ==
    IF name # NULLSTR THEN name
    ELSE IF parent # NULL /\ h.devs[parent].id # NULLSTR
    THEN h.devs[parent].id \o <<".">> \o Decimal(h.devs[parent].num_child_bus)
    ELSE ToLower(BusInfos[info].name \o <<".">>
                 \o Decimal(IF parent # NULL THEN h.devs[parent].num_child_bus ELSE 0))

\* bus is the storage the caller hands in; qdev_allocated is set by qbus_create
\* before the call and is 0 for a bus embedded by its owner
qbus_create_inplace(h, bus, qdev_allocated, info, parent, name) ==
    With([h EXCEPT !.buses = @ @@ (bus :>
              [info |-> info, parent |-> parent,
               name |-> BusName(h, info, parent, name), children |-> <<>>,
               allow_hotplug |-> FALSE, qdev_allocated |-> qdev_allocated])],
         LAMBDA h1 :
            IF parent # NULL
            THEN [h1 EXCEPT !.devs[parent].child_bus = <<bus>> \o @,
                            !.devs[parent].num_child_bus = @ + 1]
            ELSE IF bus # h.main_system_bus
            THEN qemu_register_reset(h1, bus)
            ELSE h1)

qbus_create(h, info, parent, name) ==
    With(NewBus(h), LAMBDA bus :
        [qbus_create_inplace(h, bus, TRUE, info, parent, name) EXCEPT !.ret = bus])

sysbus_get_default(h) ==
    IF h.main_system_bus = NULL
    THEN With(qbus_create(h, system_bus_info, NULL, s_main_system_bus),
              LAMBDA h1 : [h1 EXCEPT !.main_system_bus = h1.ret])
    ELSE [h EXCEPT !.ret = h.main_system_bus]

(* -------------------------- devices: lifecycle -------------------------- *)

\* qemu_mallocz leaves state 0, which is neither enum value, until line 102
qdev_create_from_info(h, bus, info) ==
    IF h.buses[bus].info # DeviceInfos[info].bus_info
    THEN Abort(h, "assert(bus->info == info->bus_info)")
    ELSE
    With(NewDev(h), LAMBDA dev :
    With([h EXCEPT !.devs = @ @@ (dev :>
              [info |-> info, parent_bus |-> bus, id |-> NULLSTR, state |-> "0",
               hotplugged |-> FALSE, child_bus |-> <<>>, num_child_bus |-> 0,
               opts |-> NULL]),
                   !.buses[bus].children = <<dev>> \o @],
         LAMBDA h1 :
            IF h1.qdev_hotplug # 0 /\ ~h1.buses[bus].allow_hotplug
            THEN Abort(h1, "assert(bus->allow_hotplug)")
            ELSE IF h1.qdev_hotplug # 0
            THEN [h1 EXCEPT !.devs[dev].hotplugged = TRUE,
                            !.qdev_hot_added = TRUE,
                            !.devs[dev].state = "DEV_STATE_CREATED", !.ret = dev]
            ELSE [h1 EXCEPT !.devs[dev].state = "DEV_STATE_CREATED", !.ret = dev]))

\* FreeProps leaving the loop after the first property
FreeProps_first(h, dev) ==
    With(DeviceInfos[h.devs[dev].info].props, LAMBDA props :
        [h EXCEPT !.freed = Drop(@, dev) @@ (dev :>
            [i \in 1..Len(props) |->
                (IF dev \in DOMAIN h.freed THEN h.freed[dev][i] ELSE 0)
                + (IF i = 1 /\ props[i].free THEN 1 ELSE 0)])])

\* the loop over dev->info->props calling each free callback
FreeProps(h, dev) ==
    With(DeviceInfos[h.devs[dev].info].props, LAMBDA props :
        [h EXCEPT !.freed = Drop(@, dev) @@ (dev :>
            [i \in 1..Len(props) |->
                (IF dev \in DOMAIN h.freed THEN h.freed[dev][i] ELSE 0)
                + (IF props[i].free THEN 1 ELSE 0)])])

RECURSIVE qdev_free(_, _)
RECURSIVE qbus_free(_, _)
RECURSIVE FreeChildBuses(_, _)
RECURSIVE FreeChildren(_, _)

\* while (dev->num_child_bus) qbus_free(QLIST_FIRST(&dev->child_bus))
FreeChildBuses(h, dev) ==
    IF h.aborted # "" \/ h.devs[dev].num_child_bus = 0 THEN h
    ELSE IF h.devs[dev].child_bus = <<>>
    THEN Abort(h, "qbus_free(NULL)")
    ELSE With(qbus_free(h, Head(h.devs[dev].child_bus)),
              LAMBDA h1 : FreeChildBuses(h1, dev))

\* while ((dev = QLIST_FIRST(&bus->children)) != NULL) qdev_free(dev)
FreeChildren(h, bus) ==
    IF h.aborted # "" \/ h.buses[bus].children = <<>> THEN h
    ELSE With(qdev_free(h, Head(h.buses[bus].children)),
              LAMBDA h1 : FreeChildren(h1, bus))

\* FreeInitialized without the vmstate_unregister of lines 393-394
FreeInitialized_registered(h, dev) ==
    With(FreeChildBuses(h, dev), LAMBDA a :
        IF a.aborted # "" THEN a
        ELSE With(IF DeviceInfos[a.devs[dev].info].exit
                  THEN [a EXCEPT !.exited = BagAdd(@, dev)] ELSE a,
                  LAMBDA c :
                     IF c.devs[dev].opts # NULL
                     THEN qemu_opts_del(c, c.devs[dev].opts)
                     ELSE c))

\* FreeInitialized without the qemu_opts_del of lines 397-398
FreeInitialized_bag_kept(h, dev) ==
    With(FreeChildBuses(h, dev), LAMBDA a :
        IF a.aborted # "" THEN a
        ELSE With(IF DeviceInfos[a.devs[dev].info].vmsd
                  THEN vmstate_unregister(a, dev) ELSE a,
                  LAMBDA b :
                     IF DeviceInfos[b.devs[dev].info].exit
                     THEN [b EXCEPT !.exited = BagAdd(@, dev)] ELSE b))

\* the if (dev->state == DEV_STATE_INITIALIZED) block of qdev_free
FreeInitialized(h, dev) ==
    With(FreeChildBuses(h, dev), LAMBDA a :
        IF a.aborted # "" THEN a
        ELSE With(IF DeviceInfos[a.devs[dev].info].vmsd
                  THEN vmstate_unregister(a, dev) ELSE a,
                  LAMBDA b :
         With(IF DeviceInfos[b.devs[dev].info].exit
              THEN [b EXCEPT !.exited = BagAdd(@, dev)] ELSE b,
              LAMBDA c :
                 IF c.devs[dev].opts # NULL
                 THEN qemu_opts_del(c, c.devs[dev].opts)
                 ELSE c)))

qdev_free(h, dev) ==
    IF h.aborted # "" THEN h
    ELSE
    With(IF h.devs[dev].state = "DEV_STATE_INITIALIZED"
         THEN FreeInitialized(h, dev) ELSE h,
         LAMBDA h1 :
    IF h1.aborted # "" THEN h1
    ELSE
    With(h1.devs[dev].parent_bus, LAMBDA pb :
    With(IF pb \in DOMAIN h1.buses
         THEN [h1 EXCEPT !.buses[pb].children = ListRemove(@, dev)]
         ELSE h1,
         LAMBDA h2 :
    With(FreeProps(h2, dev), LAMBDA h3 : [h3 EXCEPT !.devs = Drop(@, dev)]))))

\* qbus_free without the bus->parent->num_child_bus-- of line 827
qbus_free_counter_kept(h, bus) ==
    IF h.aborted # "" THEN h
    ELSE
    With(FreeChildren(h, bus), LAMBDA h1 :
    IF h1.aborted # "" THEN h1
    ELSE
    With(h1.buses[bus].parent, LAMBDA parent :
    With(IF parent # NULL
         THEN IF parent \in DOMAIN h1.devs
              THEN [h1 EXCEPT !.devs[parent].child_bus = ListRemove(@, bus)]
              ELSE Abort(h1, "use after free: bus->parent")
         ELSE IF bus = h1.main_system_bus
         THEN Abort(h1, "assert(bus != main_system_bus)")
         ELSE qemu_unregister_reset(h1, bus),
         LAMBDA h2 :
            IF h2.aborted # "" THEN h2
            ELSE [h2 EXCEPT !.buses = Drop(@, bus)])))

\* A parent that was freed while the bus stayed allocated is a dangling
\* pointer; no caller holds such a bus (see BusHeld), so that branch is dead.
qbus_free(h, bus) ==
    IF h.aborted # "" THEN h
    ELSE
    With(FreeChildren(h, bus), LAMBDA h1 :
    IF h1.aborted # "" THEN h1
    ELSE
    With(h1.buses[bus].parent, LAMBDA parent :
    With(IF parent # NULL
         THEN IF parent \in DOMAIN h1.devs
              THEN [h1 EXCEPT !.devs[parent].child_bus = ListRemove(@, bus),
                              !.devs[parent].num_child_bus = @ - 1]
              ELSE Abort(h1, "use after free: bus->parent")
         ELSE IF bus = h1.main_system_bus
         THEN Abort(h1, "assert(bus != main_system_bus)")
         ELSE qemu_unregister_reset(h1, bus),
         LAMBDA h2 :
            IF h2.aborted # "" THEN h2
            ELSE [h2 EXCEPT !.buses = Drop(@, bus)])))

RECURSIVE InitCallback(_, _, _, _)
\* dev->info->init: a kind with init_bus creates nb buses of that BusInfo under
\* its device, with default names, and sets their allow_hotplug to hp
InitCallback(h, dev, nb, hp) ==
    IF nb = 0 THEN h
    ELSE With(qbus_create(h, DeviceInfos[h.devs[dev].info].init_bus, dev, NULLSTR),
              LAMBDA c :
         With([c EXCEPT !.buses[c.ret].allow_hotplug = hp],
              LAMBDA h1 : InitCallback(h1, dev, nb - 1, hp)))

\* qdev_init without the assignment of line 295
qdev_init_created(h, dev, nb, hp, rc) ==
    IF h.devs[dev].state # "DEV_STATE_CREATED"
    THEN Abort(h, "assert(dev->state == DEV_STATE_CREATED)")
    ELSE
    With(InitCallback(h, dev, nb, hp), LAMBDA h1 :
        IF rc < 0
        THEN [qdev_free(h1, dev) EXCEPT !.ret = rc]
        ELSE With(IF DeviceInfos[h1.devs[dev].info].vmsd
                  THEN vmstate_register_with_alias_id(h1, dev) ELSE h1,
                  LAMBDA h2 : [h2 EXCEPT !.ret = 0]))

\* nb, hp: what the init callback does before it returns rc
qdev_init(h, dev, nb, hp, rc) ==
    IF h.devs[dev].state # "DEV_STATE_CREATED"
    THEN Abort(h, "assert(dev->state == DEV_STATE_CREATED)")
    ELSE
    With(InitCallback(h, dev, nb, hp), LAMBDA h1 :
        IF rc < 0
        THEN [qdev_free(h1, dev) EXCEPT !.ret = rc]
        ELSE With(IF DeviceInfos[h1.devs[dev].info].vmsd
                  THEN vmstate_register_with_alias_id(h1, dev) ELSE h1,
                  LAMBDA h2 :
                     [h2 EXCEPT !.devs[dev].state = "DEV_STATE_INITIALIZED",
                                !.ret = 0]))

(* ------------------------------- lookups -------------------------------- *)

RECURSIVE ChildBusesOf(_, _)
\* the child buses of a list of devices, in the order the nested loops visit
ChildBusesOf(h, devlist) ==
    IF devlist = <<>> THEN <<>>
    ELSE h.devs[Head(devlist)].child_bus \o ChildBusesOf(h, Tail(devlist))

RECURSIVE qbus_find_recursive(_, _, _, _)
RECURSIVE FindBusIn(_, _, _, _)

\* FindBusIn looking into the later child buses before the first
FindBusIn_last(h, buslist, name, info) ==
    IF buslist = <<>> THEN NULL
    ELSE With(FindBusIn(h, Tail(buslist), name, info), LAMBDA ret :
            IF ret # NULL THEN ret
            ELSE qbus_find_recursive(h, Head(buslist), name, info))

\* the nested loops of qbus_find_recursive over the child buses, from one on
FindBusIn(h, buslist, name, info) ==
    IF buslist = <<>> THEN NULL
    ELSE With(qbus_find_recursive(h, Head(buslist), name, info), LAMBDA ret :
            IF ret # NULL THEN ret ELSE FindBusIn(h, Tail(buslist), name, info))

\* name = NULLSTR and info = NULL stand for the NULL arguments
qbus_find_recursive(h, bus, name, info) ==
    IF /\ (name = NULLSTR \/ h.buses[bus].name = name)
       /\ (info = NULL \/ h.buses[bus].info = info)
    THEN bus
    ELSE FindBusIn(h, ChildBusesOf(h, h.buses[bus].children), name, info)

RECURSIVE qdev_find_recursive(_, _, _)
RECURSIVE FindIdInDevs(_, _, _)
RECURSIVE FindIdInBuses(_, _, _)

\* FindIdInDevs looking below a device before it looks at the device itself
FindIdInDevs_deep(h, devlist, id) ==
    IF devlist = <<>> THEN NULL
    ELSE With(Head(devlist), LAMBDA dev :
         With(FindIdInBuses(h, h.devs[dev].child_bus, id), LAMBDA r :
            IF r # NULL THEN r
            ELSE IF h.devs[dev].id # NULLSTR /\ h.devs[dev].id = id THEN dev
            ELSE FindIdInDevs(h, Tail(devlist), id)))

\* the loop over bus->children of qdev_find_recursive, from one device on
FindIdInDevs(h, devlist, id) ==
    IF devlist = <<>> THEN NULL
    ELSE With(Head(devlist), LAMBDA dev :
            IF h.devs[dev].id # NULLSTR /\ h.devs[dev].id = id THEN dev
            ELSE With(FindIdInBuses(h, h.devs[dev].child_bus, id), LAMBDA r :
                    IF r # NULL THEN r ELSE FindIdInDevs(h, Tail(devlist), id)))

\* the loop over dev->child_bus of qdev_find_recursive
FindIdInBuses(h, buslist, id) ==
    IF buslist = <<>> THEN NULL
    ELSE With(qdev_find_recursive(h, Head(buslist), id), LAMBDA r :
            IF r # NULL THEN r ELSE FindIdInBuses(h, Tail(buslist), id))

qdev_find_recursive(h, bus, id) == FindIdInDevs(h, h.buses[bus].children, id)

qbus_find_bus(h, dev, elem) ==
    FirstMatch(h.devs[dev].child_bus, LAMBDA b : h.buses[b].name = elem)

IsDigit(c) == c \in {"0", "1", "2", "3", "4", "5", "6", "7", "8", "9"}
DigitVal(c) == CHOOSE n \in 0..9 : Digit(n) = c

RECURSIVE ParseUInt(_)
\* the value of a non-empty run of decimal digits
ParseUInt(ds) ==
    IF Len(ds) = 1 THEN DigitVal(ds[1])
    ELSE 10 * ParseUInt(SubSeq(ds, 1, Len(ds) - 1)) + DigitVal(ds[Len(ds)])

\* the 0-based position of the first stop character at or after pos, or the end
ScanTo(text, pos, stop) ==
    Min({k \in pos..Len(text) : k = Len(text) \/ text[k + 1] = stop})

\* the 0-based position of the first character at or after pos that is not c
SkipAll(text, pos, c) ==
    Min({k \in pos..Len(text) : k = Len(text) \/ text[k + 1] # c})

\* sscanf(elem, "%127[^.].%u", buf, &instance): [n, buf, instance], n the
\* number of conversions.  The 127 limit is beyond every name used here, and
\* no name used here has a sign or a blank after the dot.
ScanInstance(elem) ==
    With(ScanTo(elem, 0, "."), LAMBDA dot :
    With(Min({k \in (dot + 1)..Len(elem) :
                 k = Len(elem) \/ ~IsDigit(elem[k + 1])} \cup {Len(elem) + 1}),
         LAMBDA stop :
            IF dot = 0 THEN [n |-> 0, buf |-> <<>>, instance |-> 0]
            ELSE IF dot = Len(elem) \/ stop = dot + 1
            THEN [n |-> 1, buf |-> SubSeq(elem, 1, dot), instance |-> 0]
            ELSE [n |-> 2, buf |-> SubSeq(elem, 1, dot),
                  instance |-> ParseUInt(SubSeq(elem, dot + 2, stop))]))

\* the element number `instance`, from 0, of the sublist passing the test
NthMatch(list, Test(_), instance) ==
    With(SelectSeq(list, Test), LAMBDA m :
        IF instance < Len(m) THEN m[instance + 1] ELSE NULL)

\* FindDevNamed with the second loop counting on from where the first
\* stopped (n not set back to 0 before the loop over the aliases)
FindDevNamed_counting_on(h, bus, elem, instance) ==
    With(SelectSeq(h.buses[bus].children,
                   LAMBDA d : DeviceInfos[h.devs[d].info].name = elem),
         LAMBDA named :
            IF instance < Len(named) THEN named[instance + 1]
            ELSE NthMatch(h.buses[bus].children,
                          LAMBDA d : /\ DeviceInfos[h.devs[d].info].alias # NULLSTR
                                     /\ DeviceInfos[h.devs[d].info].alias = elem,
                          instance - Len(named)))

\* the two loops of qbus_find_dev, with the name and the instance number that
\* sscanf left
FindDevNamed(h, bus, elem, instance) ==
    With(NthMatch(h.buses[bus].children,
                  LAMBDA d : DeviceInfos[h.devs[d].info].name = elem, instance),
         LAMBDA byName :
            IF byName # NULL THEN byName
            ELSE NthMatch(h.buses[bus].children,
                          LAMBDA d : /\ DeviceInfos[h.devs[d].info].alias # NULLSTR
                                     /\ DeviceInfos[h.devs[d].info].alias = elem,
                          instance))

\* qbus_find_dev with the loop by id that the source has in a comment
\* (lines 661-665) run first
qbus_find_dev_by_id(h, bus, elem) ==
    With(FirstMatch(h.buses[bus].children,
                    LAMBDA d : h.devs[d].id # NULLSTR /\ h.devs[d].id = elem),
         LAMBDA byId :
            IF byId # NULL THEN byId
            ELSE With(ScanInstance(elem), LAMBDA sc :
                    IF sc.n = 2 THEN FindDevNamed(h, bus, sc.buf, sc.instance)
                    ELSE FindDevNamed(h, bus, elem, 0)))

qbus_find_dev(h, bus, elem) ==
    With(ScanInstance(elem), LAMBDA sc :
        IF sc.n = 2 THEN FindDevNamed(h, bus, sc.buf, sc.instance)
        ELSE FindDevNamed(h, bus, elem, 0))

Fail(h, kind, arg) == [h EXCEPT !.ret = NULL, !.err = <<kind, arg>>]

\* OnlyBusOf accepting the first child bus of a device that has several
OnlyBusOf_any(h, dev, elem) ==
    IF h.devs[dev].num_child_bus = 0 THEN Fail(h, "DeviceNoBus", elem)
    ELSE [h EXCEPT !.ret = Head(h.devs[dev].child_bus)]

\* the end of a path that names a device: the switch on dev->num_child_bus
OnlyBusOf(h, dev, elem) ==
    CASE h.devs[dev].num_child_bus = 0 -> Fail(h, "DeviceNoBus", elem)
      [] h.devs[dev].num_child_bus = 1 ->
            [h EXCEPT !.ret = IF h.devs[dev].child_bus = <<>> THEN NULL
                              ELSE Head(h.devs[dev].child_bus)]
      [] OTHER -> Fail(h, "DeviceMultipleBuses", elem)

RECURSIVE qbus_find_loop(_, _, _, _)
\* the for (;;) of qbus_find, entered with the bus found so far and the
\* 0-based position in the path
qbus_find_loop(h, path, pos0, bus) ==
    With(SkipAll(path, pos0, "/"), LAMBDA pos1 :
    IF pos1 = Len(path) THEN [h EXCEPT !.ret = bus]
    ELSE IF bus = NULL THEN Abort(h, "NULL dereference: bus->children")
    ELSE
    With(ScanTo(path, pos1, "/"), LAMBDA pos2 :
    With(SubSeq(path, pos1 + 1, pos2), LAMBDA elem :
    With(qbus_find_dev(h, bus, elem), LAMBDA dev :
    IF dev = NULL THEN Fail(h, "DeviceNotFound", elem)
    ELSE
    With(SkipAll(path, pos2, "/"), LAMBDA pos3 :
    IF pos3 = Len(path) THEN OnlyBusOf(h, dev, elem)
    ELSE
    With(ScanTo(path, pos3, "/"), LAMBDA pos4 :
    With(SubSeq(path, pos3 + 1, pos4), LAMBDA elem2 :
    With(qbus_find_bus(h, dev, elem2), LAMBDA next :
        IF next = NULL THEN Fail(h, "BusNotFound", elem2)
        ELSE qbus_find_loop(h, path, pos4, next)))))))))

qbus_find(h, path) ==
    IF path # <<>> /\ path[1] = "/"
    THEN qbus_find_loop(h, path, 0, h.main_system_bus)
    ELSE IF h.main_system_bus = NULL
    THEN Abort(h, "NULL dereference: bus->name")
    ELSE With(ScanTo(path, 0, "/"), LAMBDA len :
         With(qbus_find_recursive(h, h.main_system_bus, SubSeq(path, 1, len), NULL),
              LAMBDA bus :
                 IF bus = NULL THEN Fail(h, "BusNotFound", SubSeq(path, 1, len))
                 ELSE qbus_find_loop(h, path, len, bus)))

(* ------------------------- lookups by id and path ----------------------- *)

RECURSIVE qdev_iterate_recursive(_, _, _)
RECURSIVE IterateDevs(_, _, _)
RECURSIVE IterateBuses(_, _, _)

\* the loop over bus->children of qdev_iterate_recursive, from one device on;
\* callback is given by what it returns for each device
IterateDevs(h, devlist, callback) ==
    IF devlist = <<>> THEN NULL
    ELSE With(callback[Head(devlist)], LAMBDA ret :
            IF ret # NULL THEN ret
            ELSE With(IterateBuses(h, h.devs[Head(devlist)].child_bus, callback),
                      LAMBDA r :
                         IF r # NULL THEN r
                         ELSE IterateDevs(h, Tail(devlist), callback)))

\* the loop over dev->child_bus of qdev_iterate_recursive
IterateBuses(h, buslist, callback) ==
    IF buslist = <<>> THEN NULL
    ELSE With(qdev_iterate_recursive(h, Head(buslist), callback), LAMBDA r :
            IF r # NULL THEN r ELSE IterateBuses(h, Tail(buslist), callback))

\* callers see to it that main_system_bus is not NULL when bus is
qdev_iterate_recursive(h, bus, callback) ==
    IterateDevs(h, h.buses[IF bus = NULL THEN h.main_system_bus ELSE bus].children,
                callback)

find_id_callback(h, id) ==
    [dev \in DOMAIN h.devs |->
        IF h.devs[dev].id # NULLSTR /\ h.devs[dev].id = id THEN dev ELSE NULL]

qdev_find_id_recursive(h, bus, id) ==
    qdev_iterate_recursive(h, bus, find_id_callback(h, id))

\* strrchr(path, '/') - path + 1: the length of the path up to its last slash
LastSlash(path) ==
    CHOOSE k \in 1..Len(path) :
        path[k] = "/" /\ \A j \in (k + 1)..Len(path) : path[j] # "/"

\* qdev_find that reports nothing, whatever report_errors is
qdev_find_silent(h, path, report_errors) ==
    IF path = <<>> \/ path[1] # "/"
    THEN IF h.main_system_bus = NULL
         THEN Abort(h, "NULL dereference: bus->children")
         ELSE With(qdev_find_id_recursive(h, h.main_system_bus, path), LAMBDA dev :
                 IF dev = NULL /\ FALSE
                 THEN [h EXCEPT !.ret = NULL, !.err = <<"DeviceNotFound", path>>]
                 ELSE [h EXCEPT !.ret = dev])
    ELSE
    With(LastSlash(path), LAMBDA cut :
    With(qbus_find(h, SubSeq(path, 1, cut)), LAMBDA first :
    IF first.aborted # "" THEN first
    ELSE
    With(IF first.ret = NULL /\ FALSE THEN qbus_find(first, path) ELSE first,
         LAMBDA found :
    IF found.aborted # "" \/ found.ret = NULL THEN found
    ELSE
    With(IF first.ret = NULL THEN <<>> ELSE SubSeq(path, cut + 1, Len(path)),
         LAMBDA dev_name :
    With(qbus_find_dev(found, found.ret, dev_name), LAMBDA dev :
        IF dev = NULL /\ FALSE
        THEN [found EXCEPT !.ret = NULL, !.err = <<"DeviceNotFound", dev_name>>]
        ELSE [found EXCEPT !.ret = dev])))))

\* the error a failed qbus_find of the bus part reported stays, as err, when
\* the retry with the full path or the device lookup reports no other
qdev_find(h, path, report_errors) ==
    IF path = <<>> \/ path[1] # "/"
    THEN IF h.main_system_bus = NULL
         THEN Abort(h, "NULL dereference: bus->children")
         ELSE With(qdev_find_id_recursive(h, h.main_system_bus, path), LAMBDA dev :
                 IF dev = NULL /\ report_errors
                 THEN [h EXCEPT !.ret = NULL, !.err = <<"DeviceNotFound", path>>]
                 ELSE [h EXCEPT !.ret = dev])
    ELSE
    With(LastSlash(path), LAMBDA cut :
    With(qbus_find(h, SubSeq(path, 1, cut)), LAMBDA first :
    IF first.aborted # "" THEN first
    ELSE
    With(IF first.ret = NULL /\ report_errors THEN qbus_find(first, path) ELSE first,
         LAMBDA found :
    IF found.aborted # "" \/ found.ret = NULL THEN found
    ELSE
    With(IF first.ret = NULL THEN <<>> ELSE SubSeq(path, cut + 1, Len(path)),
         LAMBDA dev_name :
    With(qbus_find_dev(found, found.ret, dev_name), LAMBDA dev :
        IF dev = NULL /\ report_errors
        THEN [found EXCEPT !.ret = NULL, !.err = <<"DeviceNotFound", dev_name>>]
        ELSE [found EXCEPT !.ret = dev])))))

\* qdev_instance_no without the comparison of line 1066: every sibling before
\* the device counts
qdev_instance_no_any(h, dev) ==
    With(h.buses[h.devs[dev].parent_bus].children, LAMBDA list :
        Cardinality({i \in 1..Len(list) : \E j \in (i + 1)..Len(list) : list[j] = dev}))

qdev_instance_no(h, dev) ==
    With(h.buses[h.devs[dev].parent_bus].children, LAMBDA list :
        Cardinality({i \in 1..Len(list) :
                        /\ h.devs[list[i]].info = h.devs[dev].info
                        /\ \E j \in (i + 1)..Len(list) : list[j] = dev}))

(* --------------------------- factory, unplug ---------------------------- *)

\* AddBus without the comparison of lines 236-240
AddBus_unchecked(h, opts, info) ==
    IF opts.bus # NULLSTR
    THEN qbus_find(h, opts.bus)
    ELSE IF h.main_system_bus = NULL
    THEN Abort(h, "NULL dereference: bus->info")
    ELSE With(qbus_find_recursive(h, h.main_system_bus, NULLSTR,
                                  DeviceInfos[info].bus_info),
              LAMBDA bus :
                 IF bus = NULL THEN Fail(h, "NoBusForDevice", DeviceInfos[info].name)
                 ELSE [h EXCEPT !.ret = bus])

\* the bus of qdev_device_add: the bus option looked up, or else the first bus
\* of the kind's BusInfo
AddBus(h, opts, info) ==
    IF opts.bus # NULLSTR
    THEN With(qbus_find(h, opts.bus), LAMBDA found :
            IF found.aborted # "" \/ found.ret = NULL THEN found
            ELSE IF h.buses[found.ret].info # DeviceInfos[info].bus_info
            THEN Fail(h, "BadBusForDevice", opts.driver)
            ELSE found)
    ELSE IF h.main_system_bus = NULL
    THEN Abort(h, "NULL dereference: bus->info")
    ELSE With(qbus_find_recursive(h, h.main_system_bus, NULLSTR,
                                  DeviceInfos[info].bus_info),
              LAMBDA bus :
                 IF bus = NULL THEN Fail(h, "NoBusForDevice", DeviceInfos[info].name)
                 ELSE [h EXCEPT !.ret = bus])

\* qdev_device_add from qdev_create_from_info on: the id, the properties, init
AddOn(h, handle, opts, bus, info) ==
    With(qdev_create_from_info(h, bus, info), LAMBDA made :
    IF made.aborted # "" THEN made
    ELSE
    With(made.ret, LAMBDA qdev :
    With(IF opts.id # NULLSTR THEN [made EXCEPT !.devs[qdev].id = opts.id]
         ELSE made,
         LAMBDA named :
    IF ~opts.parse_ok
    THEN [qdev_free(named, qdev) EXCEPT !.ret = NULL,
                                        !.err = <<"PropertyParseRejected", <<>>>>]
    ELSE
    With(qdev_init(named, qdev, opts.nb, opts.hp, opts.rc), LAMBDA inited :
        IF inited.aborted # "" THEN inited
        ELSE IF inited.ret < 0 THEN Fail(inited, "DeviceInitFailed", opts.driver)
        ELSE [inited EXCEPT !.devs[qdev].opts = handle, !.ret = qdev]))))

\* qdev_device_add without the hot-plug gate of lines 251-254
qdev_device_add_ungated(h, handle, opts) ==
    IF opts.driver = NULLSTR
    THEN Fail(h, "MissingParameter", <<"d", "r", "i", "v", "e", "r">>)
    ELSE
    With(qdev_find_info(NULL, opts.driver), LAMBDA info :
    IF info = NULL \/ DeviceInfos[info].no_user
    THEN Fail(h, "InvalidParameterValue", <<"d", "r", "i", "v", "e", "r">>)
    ELSE
    With(AddBus(h, opts, info), LAMBDA found :
        IF found.aborted # "" \/ found.ret = NULL THEN found
        ELSE AddOn(h, handle, opts, found.ret, info)))

\* An option bag: driver, bus and id are NULLSTR when absent; parse_ok is
\* whether qdev_prop_parse accepts every other option of the bag; nb, hp, rc
\* are what the kind's init callback does if it is reached.  handle is the
\* address of the bag.
qdev_device_add(h, handle, opts) ==
    IF opts.driver = NULLSTR
    THEN Fail(h, "MissingParameter", <<"d", "r", "i", "v", "e", "r">>)
    ELSE
    With(qdev_find_info(NULL, opts.driver), LAMBDA info :
    IF info = NULL \/ DeviceInfos[info].no_user
    THEN Fail(h, "InvalidParameterValue", <<"d", "r", "i", "v", "e", "r">>)
    ELSE
    With(AddBus(h, opts, info), LAMBDA found :
        IF found.aborted # "" \/ found.ret = NULL THEN found
        ELSE IF h.qdev_hotplug # 0 /\ ~h.buses[found.ret].allow_hotplug
        THEN Fail(h, "BusNoHotplug", h.buses[found.ret].name)
        ELSE AddOn(h, handle, opts, found.ret, info)))

\* qemu_opts_from_qdict on the "device" group: the new bag's address, or NULL
\* when a live bag of the group already has the id
qemu_opts_from_qdict(h, id) ==
    IF id # NULLSTR /\ \E o \in DOMAIN h.device_opts : h.device_opts[o] = id
    THEN [h EXCEPT !.ret = NULL, !.err = <<"DuplicateId", id>>]
    ELSE With(Min((1..(Cardinality(DOMAIN h.device_opts) + 1)) \ DOMAIN h.device_opts),
              LAMBDA o : [h EXCEPT !.device_opts = @ @@ (o :> id), !.ret = o])

\* driver "?" lists the kinds; the property help (option "?") is not modelled:
\* no bag here carries that option
qdev_device_help(opts) == IF opts.driver = <<"?">> THEN 1 ELSE 0

\* do_device_add releasing the bag on every path, also after a success
do_device_add_released(h, qdict, qmp) ==
    With(qemu_opts_from_qdict(h, qdict.id), LAMBDA parsed :
    With(parsed.ret, LAMBDA opts :
        IF opts = NULL THEN [parsed EXCEPT !.ret = -1]
        ELSE IF ~qmp /\ qdev_device_help(qdict) # 0
        THEN [qemu_opts_del(parsed, opts) EXCEPT !.ret = 0]
        ELSE With(qdev_device_add(parsed, opts, qdict), LAMBDA added :
                IF added.aborted # "" THEN added
                ELSE IF added.ret = NULL
                THEN [qemu_opts_del(added, opts) EXCEPT !.ret = -1]
                ELSE [qemu_opts_del(added, opts) EXCEPT !.ret = 0])))

\* do_device_add keeping the bag when qdev_device_add fails (line 921 left out)
do_device_add_kept(h, qdict, qmp) ==
    With(qemu_opts_from_qdict(h, qdict.id), LAMBDA parsed :
    With(parsed.ret, LAMBDA opts :
        IF opts = NULL THEN [parsed EXCEPT !.ret = -1]
        ELSE IF ~qmp /\ qdev_device_help(qdict) # 0
        THEN [qemu_opts_del(parsed, opts) EXCEPT !.ret = 0]
        ELSE With(qdev_device_add(parsed, opts, qdict), LAMBDA added :
                IF added.aborted # "" THEN added
                ELSE IF added.ret = NULL
                THEN [added EXCEPT !.ret = -1]
                ELSE [added EXCEPT !.ret = 0])))

do_device_add(h, qdict, qmp) ==
    With(qemu_opts_from_qdict(h, qdict.id), LAMBDA parsed :
    With(parsed.ret, LAMBDA opts :
        IF opts = NULL THEN [parsed EXCEPT !.ret = -1]
        ELSE IF ~qmp /\ qdev_device_help(qdict) # 0
        THEN [qemu_opts_del(parsed, opts) EXCEPT !.ret = 0]
        ELSE With(qdev_device_add(parsed, opts, qdict), LAMBDA added :
                IF added.aborted # "" THEN added
                ELSE IF added.ret = NULL
                THEN [qemu_opts_del(added, opts) EXCEPT !.ret = -1]
                ELSE [added EXCEPT !.ret = 0])))

\* qdev_unplug without the assignment of line 315
qdev_unplug_unlatched(h, dev) ==
    IF ~h.buses[h.devs[dev].parent_bus].allow_hotplug
    THEN [h EXCEPT !.ret = -1,
                   !.err = <<"BusNoHotplug", h.buses[h.devs[dev].parent_bus].name>>]
    ELSE IF DeviceInfos[h.devs[dev].info].unplug = "none"
    THEN Abort(h, "assert(dev->info->unplug != NULL)")
    ELSE IF DeviceInfos[h.devs[dev].info].unplug = "simple"
    THEN [qdev_free(h, dev) EXCEPT !.ret = 0]
    ELSE [h EXCEPT !.ret = 0]

\* qdev_unplug without the hot-plug check of lines 309-312
qdev_unplug_unchecked(h, dev) ==
    IF DeviceInfos[h.devs[dev].info].unplug = "none"
    THEN Abort(h, "assert(dev->info->unplug != NULL)")
    ELSE With([h EXCEPT !.qdev_hot_removed = TRUE], LAMBDA h1 :
            IF DeviceInfos[h.devs[dev].info].unplug = "simple"
            THEN [qdev_free(h1, dev) EXCEPT !.ret = 0]
            ELSE [h1 EXCEPT !.ret = 0])

qdev_unplug(h, dev) ==
    IF ~h.buses[h.devs[dev].parent_bus].allow_hotplug
    THEN [h EXCEPT !.ret = -1,
                   !.err = <<"BusNoHotplug", h.buses[h.devs[dev].parent_bus].name>>]
    ELSE IF DeviceInfos[h.devs[dev].info].unplug = "none"
    THEN Abort(h, "assert(dev->info->unplug != NULL)")
    ELSE With([h EXCEPT !.qdev_hot_removed = TRUE], LAMBDA h1 :
            IF DeviceInfos[h.devs[dev].info].unplug = "simple"
            THEN [qdev_free(h1, dev) EXCEPT !.ret = 0]
            ELSE [h1 EXCEPT !.ret = 0])

do_device_del(h, id) ==
    IF h.main_system_bus = NULL THEN Abort(h, "NULL dereference: bus->children")
    ELSE With(qdev_find_recursive(h, h.main_system_bus, id), LAMBDA dev :
            IF dev = NULL
            THEN [h EXCEPT !.ret = -1, !.err = <<"DeviceNotFound", id>>]
            ELSE qdev_unplug(h, dev))

qdev_try_create(h, bus0, name) ==
    With(IF bus0 = NULL THEN sysbus_get_default(h) ELSE h, LAMBDA h1 :
    With(IF bus0 = NULL THEN h1.ret ELSE bus0, LAMBDA bus :
    With(qdev_find_info(h1.buses[bus].info, name), LAMBDA info :
        IF info = NULL THEN [h1 EXCEPT !.ret = NULL]
        ELSE qdev_create_from_info(h1, bus, info))))

qdev_create(h, bus, name) ==
    With(qdev_try_create(h, bus, name), LAMBDA h1 :
        IF h1.aborted = "" /\ h1.ret = NULL THEN Abort(h1, "hw_error") ELSE h1)

(* -------------------------------- walks --------------------------------- *)

RECURSIVE qbus_walk_children(_, _, _, _)
RECURSIVE qdev_walk_children(_, _, _, _)
RECURSIVE WalkDevs(_, _, _, _)
RECURSIVE WalkBuses(_, _, _, _)

\* devfn and busfn are given by what they return for each node; a walk yields
\* the calls made, in order, as <<"bus" or "dev", node, code returned>>, and
\* its own return value
qbus_walk_children(h, bus, devfn, busfn) ==
    IF busfn[bus] # 0
    THEN [calls |-> <<<<"bus", bus, busfn[bus]>>>>, err |-> busfn[bus]]
    ELSE With(WalkDevs(h, h.buses[bus].children, devfn, busfn), LAMBDA rest :
            [calls |-> <<<<"bus", bus, 0>>>> \o rest.calls, err |-> rest.err])

\* WalkDevs returning after the first child
WalkDevs_first(h, devlist, devfn, busfn) ==
    IF devlist = <<>> THEN [calls |-> <<>>, err |-> 0]
    ELSE qdev_walk_children(h, Head(devlist), devfn, busfn)

\* QLIST_FOREACH(dev, &bus->children, sibling) of qbus_walk_children
WalkDevs(h, devlist, devfn, busfn) ==
    IF devlist = <<>> THEN [calls |-> <<>>, err |-> 0]
    ELSE With(qdev_walk_children(h, Head(devlist), devfn, busfn), LAMBDA r :
            IF r.err < 0 THEN r
            ELSE With(WalkDevs(h, Tail(devlist), devfn, busfn), LAMBDA rest :
                    [calls |-> r.calls \o rest.calls, err |-> rest.err]))

qdev_walk_children(h, dev, devfn, busfn) ==
    IF devfn[dev] # 0
    THEN [calls |-> <<<<"dev", dev, devfn[dev]>>>>, err |-> devfn[dev]]
    ELSE With(WalkBuses(h, h.devs[dev].child_bus, devfn, busfn), LAMBDA rest :
            [calls |-> <<<<"dev", dev, 0>>>> \o rest.calls, err |-> rest.err])

\* WalkBuses with if (err) in place of if (err < 0)
WalkBuses_nonzero(h, buslist, devfn, busfn) ==
    IF buslist = <<>> THEN [calls |-> <<>>, err |-> 0]
    ELSE With(qbus_walk_children(h, Head(buslist), devfn, busfn), LAMBDA r :
            IF r.err # 0 THEN r
            ELSE With(WalkBuses(h, Tail(buslist), devfn, busfn), LAMBDA rest :
                    [calls |-> r.calls \o rest.calls, err |-> rest.err]))

\* QLIST_FOREACH(bus, &dev->child_bus, sibling) of qdev_walk_children
WalkBuses(h, buslist, devfn, busfn) ==
    IF buslist = <<>> THEN [calls |-> <<>>, err |-> 0]
    ELSE With(qbus_walk_children(h, Head(buslist), devfn, busfn), LAMBDA r :
            IF r.err < 0 THEN r
            ELSE With(WalkBuses(h, Tail(buslist), devfn, busfn), LAMBDA rest :
                    [calls |-> r.calls \o rest.calls, err |-> rest.err]))

\* qdev_reset_one calls the void reset callback and returns 0
qdev_reset_one(h) == [d \in DOMAIN h.devs |-> 0]

\* qbus_reset_one returns what the BusInfo's reset callback returns, given
\* here per bus (0 also stands for a BusInfo without the callback)
qbus_reset_one(h, resets) == [b \in DOMAIN h.buses |-> resets[b]]

\* both reset entry points return void: what is left of the walk is the calls
qdev_reset_all(h, dev, resets) ==
    qdev_walk_children(h, dev, qdev_reset_one(h), qbus_reset_one(h, resets))

qbus_reset_all_fn(h, bus, resets) ==
    qbus_walk_children(h, bus, qdev_reset_one(h), qbus_reset_one(h, resets))

(* ---------------------------- introspection ---------------------------- *)

\* Integers wider than a machine word are written as their bytes, the least
\* significant first, so that every width is kept exactly.
ZeroExtend(bytes, n) == bytes \o [i \in 1..(n - Len(bytes)) |-> 0]
SignExtend(bytes, n) ==
    bytes \o [i \in 1..(n - Len(bytes)) |-> IF bytes[Len(bytes)] >= 128 THEN 255 ELSE 0]

\* the width of int, in bytes, and of the int64_t that qint_from_int takes
IntBytes == 4
Int64Bytes == 8

\* val = *(uintN_t *)addr with int val: the conversion to int keeps the low
\* 32 bits, as the compilers QEMU is built with define it
ToInt(slot) ==
    IF Len(slot) <= IntBytes THEN ZeroExtend(slot, IntBytes)
    ELSE SubSeq(slot, 1, IntBytes)

\* qint_from_int(val): the int argument is converted to int64_t
qint_from_int(val) == [type |-> "qint", value |-> SignExtend(val, Int64Bytes)]

RECURSIVE BitAnd(_, _)
\* a & b of two numbers
BitAnd(a, b) ==
    IF a = 0 \/ b = 0 THEN 0
    ELSE (a % 2) * (b % 2) + 2 * BitAnd(a \div 2, b \div 2)

\* val = val & mask; val = !(val == 0), on the bytes of val
MaskedBit(val, mask) ==
    IF \E i \in 1..IntBytes : BitAnd(val[i], mask[i]) # 0
    THEN <<1, 0, 0, 0>> ELSE <<0, 0, 0, 0>>

\* VMStateField records.  size: field->size; flags: the VMS_ flags that are
\* set; num: field->num; vmsd: the descriptor of a VMS_STRUCT field, by
\* address; exists: what field_exists answers, TRUE also without the callback;
\* mask, bit_name: bit_field_mask and bit_field_name.  The descriptors here
\* have no field whose size, count or address is read from the device state
\* (VMS_VBUFFER, VMS_VARRAY_*, VMS_POINTER, VMS_ARRAY_OF_POINTER) and no
\* start_index.
VMSField(name, size, flags) ==
    [name |-> name, size |-> size, flags |-> flags, num |-> 0, vmsd |-> NULL,
     exists |-> TRUE, mask |-> <<0, 0, 0, 0>>, bit_name |-> ""]

vmstate_blinker ==
    [version_id |-> 1, pre_save |-> TRUE,
     fields |-> << VMSField("ticks", 4, {}),
                   VMSField("rate", 1, {}),
                   [VMSField("status", 1, {"VMS_BITFIELD"})
                       EXCEPT !.mask = <<4, 0, 0, 0>>, !.bit_name = "lit"],
                   [VMSField("spare", 2, {}) EXCEPT !.exists = FALSE],
                   VMSField("eeprom", 17, {"VMS_BUFFER"}) >>]
vmstate_nic ==
    [version_id |-> 2, pre_save |-> FALSE,
     fields |-> << VMSField("mac", 6, {"VMS_BUFFER"}),
                   [VMSField("regs", 2, {"VMS_ARRAY"}) EXCEPT !.num = 2],
                   VMSField("bytes_in", 8, {}),
                   [VMSField("ring", 4, {"VMS_STRUCT", "VMS_ARRAY"})
                       EXCEPT !.num = 2, !.vmsd = 3],
                   VMSField("rxq", 4, {"VMS_QUEUE"}) >>]
vmstate_ring ==
    [version_id |-> 1, pre_save |-> TRUE,
     fields |-> << VMSField("head", 4, {}) >>]
vmstate_odd ==
    [version_id |-> 1, pre_save |-> TRUE,
     fields |-> << VMSField("mode", 1, {}), VMSField("triple", 3, {}) >>]
vmstate_plain ==
    [version_id |-> 3, pre_save |-> FALSE,
     fields |-> << VMSField("word", 2, {}),
                   [VMSField("sub", 4, {"VMS_STRUCT"}) EXCEPT !.vmsd = 6] >>]
vmstate_leaf ==
    [version_id |-> 1, pre_save |-> FALSE,
     fields |-> << VMSField("quad", 8, {}) >>]

\* VMStateDescription objects, by address
VMStateDescriptions ==
    <<vmstate_blinker, vmstate_nic, vmstate_ring, vmstate_odd, vmstate_plain,
      vmstate_leaf>>

\* The device state that opaque points to is, per field of the descriptor, the
\* list of its elements: the bytes of a slot, or for a VMS_STRUCT field the
\* state of the nested structure.
ElemCount(field) == IF "VMS_ARRAY" \in field.flags THEN field.num ELSE 1

\* the element of a field that is not a structure: a buffer, a queue or an
\* integer; r carries the list the element is appended to
ParseSlot(field, slot, full_buffers, r) ==
    IF field.flags \cap {"VMS_BUFFER", "VMS_VBUFFER"} # {}
    THEN [r EXCEPT !.sub_elems = Append(@,
              [type |-> "qbuffer",
               value |-> SubSeq(slot, 1, IF full_buffers # 0 \/ field.size <= 16
                                         THEN field.size ELSE 16)])]
    ELSE IF "VMS_QUEUE" \in field.flags
    THEN [r EXCEPT !.events = Append(@, <<"queue_print_cb", 0>>)]
    ELSE IF field.size \notin {1, 2, 4, 8}
    THEN [r EXCEPT !.aborted = "assert(0)"]
    ELSE With(ToInt(slot), LAMBDA val :
            [r EXCEPT !.sub_elems = Append(@,
                qint_from_int(IF "VMS_BITFIELD" \in field.flags
                              THEN MaskedBit(val, field.mask) ELSE val))])

RECURSIVE parse_vmstate(_, _, _, _)
RECURSIVE ParseFields(_, _, _, _, _)
RECURSIVE ParseElems(_, _, _, _, _)

\* the for loop over the elements of one field, from element i on; r carries
\* qelems, real_size and overall_size
ParseElems(field, elems, i, full_buffers, r) ==
    IF r.aborted # "" \/ i > ElemCount(field) THEN r
    ELSE
    With(IF "VMS_STRUCT" \in field.flags
         THEN With(parse_vmstate(field.vmsd, elems[i], full_buffers,
                                 [r EXCEPT !.qlist = <<>>]),
                   LAMBDA sub :
                      [sub EXCEPT !.qlist = r.qlist, !.qelems = r.qelems,
                                  !.sub_elems = sub.qlist, !.real_size = sub.ret,
                                  !.overall_size = r.overall_size])
         ELSE ParseSlot(field, elems[i], full_buffers,
                        [r EXCEPT !.sub_elems = <<>>, !.real_size = field.size]),
         LAMBDA one :
    IF one.aborted # "" THEN one
    ELSE ParseElems(field, elems, i + 1, full_buffers,
            [one EXCEPT !.qelems = IF "VMS_ARRAY" \in field.flags
                                   THEN Append(@, one.sub_elems)
                                   ELSE @ \o one.sub_elems,
                        !.overall_size = @ + one.real_size]))

\* while (field->name), from field k on
ParseFields(vmsd, opaque, k, full_buffers, r) ==
    IF r.aborted # "" \/ k > Len(VMStateDescriptions[vmsd].fields) THEN r
    ELSE
    With(VMStateDescriptions[vmsd].fields[k], LAMBDA field :
    With([r EXCEPT !.events = Append(@, <<"field", vmsd>>)], LAMBDA r1 :
    IF ~field.exists THEN ParseFields(vmsd, opaque, k + 1, full_buffers, r1)
    ELSE
    With(ParseElems(field, opaque[k], 1, full_buffers,
                    [r1 EXCEPT !.qelems = <<>>, !.real_size = 0]),
         LAMBDA done :
    IF done.aborted # "" THEN done
    ELSE ParseFields(vmsd, opaque, k + 1, full_buffers,
            [done EXCEPT !.qlist = Append(@,
                [name |-> IF "VMS_BITFIELD" \in field.flags THEN field.bit_name
                          ELSE field.name,
                 elems |-> done.qelems, size |-> done.real_size])]))))

\* parse_vmstate without the call of the hook in lines 1195-1197
parse_vmstate_unhooked(vmsd, opaque, full_buffers, r) ==
    With(ParseFields(vmsd, opaque, 1, full_buffers,
                     [r EXCEPT !.events = Append(@, <<"parse_vmstate", vmsd>>),
                               !.overall_size = 0]),
         LAMBDA done : [done EXCEPT !.ret = done.overall_size])

\* r carries qlist, the list the fields are appended to, the events so far
\* (calls of parse_vmstate, of hooks and of queue callbacks, and the fields as
\* the loop comes to them) and aborted; the result also ret, the size
parse_vmstate(vmsd, opaque, full_buffers, r) ==
    With([r EXCEPT !.events = Append(@, <<"parse_vmstate", vmsd>>)], LAMBDA r0 :
    With(IF VMStateDescriptions[vmsd].pre_save
         THEN [r0 EXCEPT !.events = Append(@, <<"pre_save", vmsd>>)] ELSE r0,
         LAMBDA r1 :
    With(ParseFields(vmsd, opaque, 1, full_buffers, [r1 EXCEPT !.overall_size = 0]),
         LAMBDA done : [done EXCEPT !.ret = done.overall_size])))

\* the record parse_vmstate starts from, as do_device_show calls it
NewWalk ==
    [qlist |-> <<>>, events |-> <<>>, aborted |-> "", ret |-> 0,
     qelems |-> <<>>, sub_elems |-> <<>>, real_size |-> 0, overall_size |-> 0]

(* ------------------------------- base64 -------------------------------- *)

\* Characters are their codes.  a << n on uint32_t, which drops the bits
\* shifted out at the top; a >> n; a | b.
Shl(a, n) == (a % 2^(32 - n)) * 2^n
Shr(a, n) == a \div 2^n
RECURSIVE BitOr(_, _)
BitOr(a, b) ==
    IF a = 0 THEN b
    ELSE IF b = 0 THEN a
    ELSE (IF a % 2 = 1 \/ b % 2 = 1 THEN 1 ELSE 0) + 2 * BitOr(a \div 2, b \div 2)

\* "ABCDEFGHIJKLMNOPQRSTUVWXYZabcdefghijklmnopqrstuvwxyz0123456789+/", from
\* index 1
base ==
    <<65, 66, 67, 68, 69, 70, 71, 72, 73, 74, 75, 76, 77,
      78, 79, 80, 81, 82, 83, 84, 85, 86, 87, 88, 89, 90,
      97, 98, 99, 100, 101, 102, 103, 104, 105, 106, 107, 108, 109,
      110, 111, 112, 113, 114, 115, 116, 117, 118, 119, 120, 121, 122,
      48, 49, 50, 51, 52, 53, 54, 55, 56, 57, 43, 47>>

\* '=', the padding character
Pad == 61

\* the four characters for three bytes
encode3to4(src) ==
    With(BitOr(Shl(BitOr(Shl(BitOr(Shl(0, 8), src[1]), 8), src[2]), 8), src[3]),
         LAMBDA b32 :
            [i \in 1..4 |-> base[BitAnd(Shr(b32, 18 - 6 * (i - 1)), 63) + 1]])

encode2to4(src) ==
    << base[BitAnd(Shr(src[1], 2), 63) + 1],
       base[BitOr(Shl(BitAnd(src[1], 3), 4), BitAnd(Shr(src[2], 4), 15)) + 1],
       base[Shl(BitAnd(src[2], 15), 2) + 1],
       Pad >>

encode1to4(src) ==
    << base[BitAnd(Shr(src[1], 2), 63) + 1],
       base[Shl(BitAnd(src[1], 3), 4) + 1],
       Pad,
       Pad >>

RECURSIVE base64_encode(_, _)
\* base64_encode(src, srclen, dest), as the characters written to dest, the
\* terminating NUL among them
base64_encode(src, srclen) ==
    IF srclen >= 3
    THEN encode3to4(src) \o base64_encode(SubSeq(src, 4, Len(src)), srclen - 3)
    ELSE CASE srclen = 2 -> encode2to4(src) \o <<0>>
           [] srclen = 1 -> encode1to4(src) \o <<0>>
           [] srclen = 0 -> <<0>>

codetovalue(c) ==
    IF c >= 65 /\ c <= 90 THEN c - 65
    ELSE IF c >= 97 /\ c <= 122 THEN c - 97 + 26
    ELSE IF c >= 48 /\ c <= 57 THEN c - 48 + 52
    ELSE IF c = 43 THEN 62
    ELSE IF c = 47 THEN 63
    ELSE -1

\* The decoders answer with ret and with dest, the bytes they wrote.
decode4to3(src) ==
    IF \E i \in 1..4 : codetovalue(src[i]) < 0
    THEN [ret |-> -1, dest |-> <<>>]
    ELSE With(BitOr(Shl(BitOr(Shl(BitOr(Shl(BitOr(Shl(0, 6),
                  codetovalue(src[1])), 6), codetovalue(src[2])), 6),
                  codetovalue(src[3])), 6), codetovalue(src[4])),
              LAMBDA b32 :
                 [ret |-> 0,
                  dest |-> << BitAnd(Shr(b32, 16), 255),
                              BitAnd(Shr(b32, 8), 255),
                              BitAnd(b32, 255) >>])

decode3to2_unshifted(src) ==
    IF \E i \in 1..3 : codetovalue(src[i]) < 0
    THEN [ret |-> -1, dest |-> <<>>]
    ELSE With(BitOr(Shl(BitOr(Shl(codetovalue(src[1]), 6),
                              codetovalue(src[2])), 4),
                    codetovalue(src[3])),
              LAMBDA b32 :
                 [ret |-> 0,
                  dest |-> << BitAnd(Shr(b32, 8), 255), BitAnd(b32, 255) >>])
decode3to2(src) ==
    IF \E i \in 1..3 : codetovalue(src[i]) < 0
    THEN [ret |-> -1, dest |-> <<>>]
    ELSE With(BitOr(Shl(BitOr(Shl(codetovalue(src[1]), 6),
                              codetovalue(src[2])), 4),
                    Shr(codetovalue(src[3]), 2)),
              LAMBDA b32 :
                 [ret |-> 0,
                  dest |-> << BitAnd(Shr(b32, 8), 255), BitAnd(b32, 255) >>])

\* dest[0] = b32 keeps the low eight bits
decode2to1(src) ==
    IF \E i \in 1..2 : codetovalue(src[i]) < 0
    THEN [ret |-> -1, dest |-> <<>>]
    ELSE [ret |-> 0,
          dest |-> << BitOr(Shl(codetovalue(src[1]), 2),
                            Shr(codetovalue(src[2]), 4)) % 256 >>]

RECURSIVE DecodeLoop(_, _, _)
\* the loop and the switch of base64_decode, with the bytes written so far
DecodeLoop(src, srclen, dest) ==
    IF srclen >= 4
    THEN With(decode4to3(src), LAMBDA r :
            IF r.ret < 0 THEN [ret |-> r.ret, dest |-> dest]
            ELSE DecodeLoop(SubSeq(src, 5, Len(src)), srclen - 4, dest \o r.dest))
    ELSE CASE srclen = 3 ->
                With(decode3to2(src), LAMBDA r : [ret |-> r.ret, dest |-> dest \o r.dest])
           [] srclen = 2 ->
                With(decode2to1(src), LAMBDA r : [ret |-> r.ret, dest |-> dest \o r.dest])
           [] srclen = 1 -> [ret |-> -1, dest |-> dest]
           [] OTHER -> [ret |-> 0, dest |-> dest]

\* base64_decode(src, srclen, dest): ret, and in dest the bytes written
base64_decode(src, srclen) == DecodeLoop(src, srclen, <<>>)

RECURSIVE Stripped(_, _)
\* while (str_len > 0 && str[str_len - 1] == '=') str_len--
Stripped(str, str_len) ==
    IF str_len > 0 /\ str[str_len] = Pad THEN Stripped(str, str_len - 1)
    ELSE str_len

\* qbuffer_from_qstring(string): NULL, or the QBuffer with the size computed
\* and the data decoded into it
qbuffer_from_qstring(string) ==
    With(Stripped(string, Len(string)), LAMBDA str_len :
    With(base64_decode(string, str_len), LAMBDA r :
        IF r.ret < 0 THEN [qb |-> NULL, size |-> 0, data |-> <<>>, ret |-> r.ret]
        ELSE [qb |-> 1,
              size |-> (str_len \div 4) * 3 + ((str_len % 4) * 3) \div 4,
              data |-> r.dest, ret |-> r.ret]))

\* str of a buffer that holds a C string: the characters before the first NUL
RECURSIVE CStr(_)
CStr(buf) ==
    IF buf = <<>> \/ buf[1] = 0 THEN <<>> ELSE <<buf[1]>> \o CStr(Tail(buf))

\* nothing encoded, nothing decoded.  src: the bytes to encode; dest: what
\* base64_encode wrote; string: the QString handed to the decoders; qb: what
\* qbuffer_from_qstring returned, with the ret of its base64_decode; dec: what
\* base64_decode returned for the whole string; done: the calls made.
NoTransfer ==
    [src |-> <<>>, dest |-> <<>>, string |-> <<>>,
     qb |-> [qb |-> NULL, size |-> 0, data |-> <<>>, ret |-> 0],
     dec |-> [ret |-> 0, dest |-> <<>>], done |-> {}]

(* ------------------------------- inputs --------------------------------- *)

s_pci_0 == <<"p", "c", "i", ".", "0">>
s_unknown == <<"x">>
s_a == <<"a">>

\* the ids an option bag may carry
Ids == {NULLSTR, s_a}
\* the driver option of a bag: absent, names, an alias, a no-user kind, help
Drivers == {NULLSTR, s_blinker, s_br, s_nic, s_host, s_unknown, <<"?">>}
\* the names board code creates devices by
KindNames == {s_blinker, s_bridge, s_nic}
\* the bus option of a bag: absent, the root, a device with one bus, a path
\* that names nothing
Paths == {NULLSTR, <<"/">>, <<"/">> \o s_bridge, <<"/">> \o s_unknown}
\* what a bus reset callback returns
ResetCodes == {-1, 0, 1}

\* The option bags of device_add.  The fields a call never reads are fixed:
\* those of a bag whose driver is rejected, and the init callback's behaviour
\* when the properties are rejected.
Bags ==
    {q \in [driver : Drivers, bus : Paths, id : Ids, parse_ok : BOOLEAN,
            nb : 0..MaxInitBus, hp : BOOLEAN, rc : {-1, 0}] :
        LET info == qdev_find_info(NULL, q.driver)
        IN /\ q.nb > 0 => info # NULL /\ DeviceInfos[info].init_bus # NULL
           /\ q.nb = 0 => ~q.hp
           /\ ~q.parse_ok => q.nb = 0 /\ q.rc = 0
           /\ info = NULL \/ DeviceInfos[info].no_user
                 => q.bus = NULLSTR /\ q.parse_ok /\ q.nb = 0 /\ q.rc = 0}

\* The buses callers create: BusInfo, name (NULLSTR for the default name),
\* the allow_hotplug the caller sets, and whether the storage is the caller's
\* (qbus_create_inplace) or allocated (qbus_create).
NewBuses ==
    {[info |-> system_bus_info, name |-> NULLSTR, hp |-> FALSE, inplace |-> FALSE],
     [info |-> pci_bus_info, name |-> NULLSTR, hp |-> TRUE, inplace |-> FALSE],
     [info |-> pci_bus_info, name |-> NULLSTR, hp |-> FALSE, inplace |-> TRUE],
     [info |-> pci_bus_info, name |-> s_pci_0, hp |-> TRUE, inplace |-> FALSE]}

RECURSIVE BusHeld(_, _)
\* The nodes some caller still has a pointer to: the buses without a parent
\* and what hangs below them.  A bus whose parent device was freed in state
\* Created is still allocated, but its only owner is gone.
BusHeld(h, bus) ==
    /\ bus \in DOMAIN h.buses
    /\ \/ h.buses[bus].parent = NULL
       \/ /\ h.buses[bus].parent \in DOMAIN h.devs
          /\ BusHeld(h, h.devs[h.buses[bus].parent].parent_bus)

HeldBuses == {b \in DOMAIN buses : BusHeld(Heap, b)}
HeldDevs == {d \in DOMAIN devs : BusHeld(Heap, devs[d].parent_bus)}

(* ------------------------- addresses, canonically ----------------------- *)

RECURSIVE Sorted(_)
\* a set of numbers as the increasing sequence
Sorted(S) ==
    IF S = {} THEN <<>> ELSE With(Min(S), LAMBDA m : <<m>> \o Sorted(S \ {m}))

IndexOf(seq, x) == CHOOSE i \in 1..Len(seq) : seq[i] = x

RECURSIVE PreorderBuses(_, _)
RECURSIVE PreorderDevs(_, _)
\* the buses and the devices below a list of buses, parents first
PreorderBuses(h, buslist) ==
    IF buslist = <<>> THEN [b |-> <<>>, d |-> <<>>]
    ELSE With(PreorderDevs(h, h.buses[Head(buslist)].children), LAMBDA below :
         With(PreorderBuses(h, Tail(buslist)), LAMBDA rest :
            [b |-> <<Head(buslist)>> \o below.b \o rest.b, d |-> below.d \o rest.d]))

PreorderDevs(h, devlist) ==
    IF devlist = <<>> THEN [b |-> <<>>, d |-> <<>>]
    ELSE With(PreorderBuses(h, h.devs[Head(devlist)].child_bus), LAMBDA below :
         With(PreorderDevs(h, Tail(devlist)), LAMBDA rest :
            [b |-> below.b \o rest.b, d |-> <<Head(devlist)>> \o below.d \o rest.d]))

\* the live buses and devices in their canonical order: the root bus and what
\* is below it in pre-order, then the other buses that hang on no live device,
\* each with what is below it
Order(h) ==
    With({b \in DOMAIN h.buses : h.buses[b].parent \notin DOMAIN h.devs}, LAMBDA top :
    With(PreorderBuses(h, (IF h.main_system_bus \in top THEN <<h.main_system_bus>>
                           ELSE <<>>) \o Sorted(top \ {h.main_system_bus})),
         LAMBDA pre :
            [b |-> pre.b \o Sorted(DOMAIN h.buses \ {pre.b[i] : i \in 1..Len(pre.b)}),
             d |-> pre.d \o Sorted(DOMAIN h.devs \ {pre.d[i] : i \in 1..Len(pre.d)})]))

\* a registry with its keys renamed; keys that fall together add up
Renamed(bag, to) ==
    [k \in {to[j] : j \in DOMAIN bag} |->
        LET from == Sorted({j \in DOMAIN bag : to[j] = k})
            sum[i \in 0..Len(from)] == IF i = 0 THEN 0 ELSE sum[i - 1] + bag[from[i]]
        IN sum[Len(from)]]

\* h with its addresses renamed by the maps nb (buses), nd (devices) and no
\* (option bags); bo and do are the live buses and devices in the new order
Rename(h, bo, do, nb, nd, no) ==
    [h EXCEPT
        !.devs = [i \in 1..Len(do) |->
                     [h.devs[do[i]] EXCEPT !.parent_bus = nb[@],
                                           !.child_bus = [j \in 1..Len(@) |-> nb[@[j]]],
                                           !.opts = no[@]]],
        !.buses = [i \in 1..Len(bo) |->
                      [h.buses[bo[i]] EXCEPT !.parent = nd[@],
                                             !.children = [j \in 1..Len(@) |-> nd[@[j]]]]],
        !.main_system_bus = nb[@],
        !.vmstate = Renamed(@, nd),
        !.reset_handlers = Renamed(@, nb),
        !.device_opts = [k \in {no[o] : o \in DOMAIN h.device_opts} |->
                            h.device_opts[CHOOSE o \in DOMAIN h.device_opts : no[o] = k]]]

\* every address a pointer of h may hold
Addresses == 0..(2 * (MaxDev + MaxBus) + 2)

\* the new address of d: its place in the order, or for a pointer to a freed
\* object the first unused address
NewAddress(order, d) ==
    IF d = NULL THEN NULL
    ELSE IF \E i \in 1..Len(order) : order[i] = d THEN IndexOf(order, d)
    ELSE Len(order) + 1

\* An address is an arbitrary number: two heaps that differ only in where the
\* allocator put the objects are the same program state.  Canonical renames
\* the addresses of h to the positions in Order; an option bag gets the address
\* of the device that owns it.
Canonical(h) ==
    With(Order(h), LAMBDA o :
    With([b \in Addresses |-> NewAddress(o.b, b)], LAMBDA nb :
    With([d \in Addresses |-> NewAddress(o.d, d)], LAMBDA nd :
    With([p \in Addresses |->
             IF p = NULL THEN NULL
             ELSE IF \E d \in DOMAIN h.devs : h.devs[d].opts = p
             THEN nd[Min({d \in DOMAIN h.devs : h.devs[d].opts = p})]
             ELSE Len(o.d) + p],
         LAMBDA no : Rename(h, o.b, o.d, nb, nd, no)))))

\* the next state is what the call left, up to the choice of addresses
Commit(h) ==
    \E c \in {Canonical(h)} :
       /\ devs' = c.devs
       /\ buses' = c.buses
       /\ main_system_bus' = c.main_system_bus
       /\ qdev_hotplug' = c.qdev_hotplug
       /\ qdev_hot_added' = c.qdev_hot_added
       /\ qdev_hot_removed' = c.qdev_hot_removed
       /\ vmstate' = c.vmstate
       /\ reset_handlers' = c.reset_handlers
       /\ device_opts' = c.device_opts
       /\ aborted' = c.aborted
       /\ UNCHANGED <<registry, device_state, b64>>

(* ------------------------------- actions -------------------------------- *)

Init ==
    /\ devs = Empty
    /\ buses = Empty
    /\ main_system_bus = NULL
    /\ qdev_hotplug = 0
    /\ qdev_hot_added = FALSE
    /\ qdev_hot_removed = FALSE
    /\ vmstate = Empty
    /\ reset_handlers = Empty
    /\ device_opts = Empty
    /\ aborted = ""
    /\ registry = [k \in {"device_info_list", "next"} |->
                      Registered(<<1, 2, 3, 4, 5>>)[k]]
    /\ device_state = [vmsd |-> NULL, opaque |-> <<>>]
    /\ b64 = NoTransfer

Running == aborted = ""
\* the call may allocate nd devices and nb buses
Room(nd, nb) ==
    /\ Cardinality(DOMAIN devs) + nd <= MaxDev
    /\ Cardinality(DOMAIN buses) + nb <= MaxBus
    /\ Cardinality(DOMAIN devs) + Cardinality(DOMAIN buses) + nd + nb <= MaxNodes

SysbusGetDefault ==
    /\ Running
    /\ main_system_bus = NULL => Room(0, 1)
    /\ Commit(sysbus_get_default(Heap))

\* qdev_create, and qdev_try_create within it, with a bus or with NULL for
\* the root bus
QdevCreate ==
    /\ Running
    /\ \E bus \in HeldBuses \cup {NULL}, name \in KindNames :
          /\ Room(1, IF bus = NULL /\ main_system_bus = NULL THEN 1 ELSE 0)
          /\ Commit(qdev_create(Heap, bus, name))

\* the init callback creates buses only for a kind that has init_bus
InitInputs(dev) ==
    {in \in [nb : 0..MaxInitBus, hp : BOOLEAN, rc : {-1, 0}] :
        /\ in.nb > 0 => DeviceInfos[devs[dev].info].init_bus # NULL
        /\ in.nb = 0 => ~in.hp
        /\ Room(0, in.nb)}

\* callers keep the precondition that qdev_init asserts
QdevInit ==
    /\ Running
    /\ \E dev \in HeldDevs : \E in \in InitInputs(dev) :
          /\ devs[dev].state = "DEV_STATE_CREATED"
          /\ Commit(qdev_init(Heap, dev, in.nb, in.hp, in.rc))

QdevFree ==
    /\ Running
    /\ \E dev \in HeldDevs : Commit(qdev_free(Heap, dev))

\* qbus_create or, with inplace, qbus_create_inplace on the caller's storage,
\* after which the caller sets allow_hotplug.  A caller that supplies a name
\* supplies one that no sibling has.
NewBusCall(h, new, parent) ==
    LET h1 == IF new.inplace
              THEN [qbus_create_inplace(h, NewBus(h), FALSE, new.info, parent, new.name)
                    EXCEPT !.ret = NewBus(h)]
              ELSE qbus_create(h, new.info, parent, new.name)
    IN [h1 EXCEPT !.buses[h1.ret].allow_hotplug = new.hp]

QbusCreate ==
    /\ Running
    /\ Room(0, 1)
    /\ \E new \in NewBuses, parent \in HeldDevs \cup {NULL} :
          /\ (new.name # NULLSTR /\ parent # NULL)
                => \A i \in 1..Len(devs[parent].child_bus) :
                       buses[devs[parent].child_bus[i]].name # new.name
          /\ Commit(NewBusCall(Heap, new, parent))

\* the root bus is never freed
QbusFree ==
    /\ Running
    /\ \E bus \in HeldBuses \ {main_system_bus} : Commit(qbus_free(Heap, bus))

qdev_machine_creation_done(h) == [h EXCEPT !.qdev_hotplug = 1]

qdev_machine_modified(h) == h.qdev_hot_added \/ h.qdev_hot_removed

QdevMachineCreationDone ==
    /\ Running
    /\ Commit(qdev_machine_creation_done(Heap))

\* the bags and monitor modes a device_add may come with in this state
AddInputs ==
    {in \in [qdict : Bags, qmp : BOOLEAN] :
        /\ in.qmp => in.qdict.driver = <<"?">>
        /\ Room(1, in.qdict.nb)}

DoDeviceAdd ==
    /\ Running
    /\ \E in \in AddInputs : Commit(do_device_add(Heap, in.qdict, in.qmp))

DoDeviceDel ==
    /\ Running
    /\ \E id \in Ids \ {NULLSTR} : Commit(do_device_del(Heap, id))

QdevUnplug ==
    /\ Running
    /\ \E dev \in HeldDevs : Commit(qdev_unplug(Heap, dev))

\* the reset callbacks are the devices' own business: a reset walk leaves the
\* tree and the registries as they are, whatever the callbacks return
QdevResetAll ==
    /\ Running
    /\ \E dev \in HeldDevs :
          /\ qdev_reset_all(Heap, dev, [b \in DOMAIN buses |-> 0]).calls # <<>>
          /\ UNCHANGED vars

QbusResetAllFn ==
    /\ Running
    /\ \E bus \in HeldBuses :
          /\ qbus_reset_all_fn(Heap, bus, [b \in DOMAIN buses |-> 0]).calls # <<>>
          /\ UNCHANGED vars

\* The machine as the board and the monitor drive it: the board creates and
\* initialises devices, which create their buses, declares the machine done,
\* and the monitor adds and removes devices.
Next ==
    \/ SysbusGetDefault
    \/ QdevCreate
    \/ QdevInit
    \/ QdevFree
    \/ QdevMachineCreationDone
    \/ DoDeviceAdd
    \/ DoDeviceDel
    \/ QdevUnplug

Spec == Init /\ [][Next]_vars

\* The tree as bus and device code drives it: buses are created and freed
\* directly, also without a parent, and subtrees are reset.
NextTree ==
    \/ SysbusGetDefault
    \/ QdevCreate
    \/ QdevInit
    \/ QdevFree
    \/ QbusCreate
    \/ QbusFree
    \/ QdevResetAll
    \/ QbusResetAllFn

SpecTree == Init /\ [][NextTree]_vars

s_b == <<"b">>
\* the ids of the trees the id searches are given
SearchIds == {s_a, s_b}

\* qdev->id = id, as qdev_device_add does between creation and init, with
\* whatever id its bag carries: hw/qdev.c itself compares no ids, so that
\* the trees the searches are given may hold an id twice
SetId ==
    /\ Running
    /\ \E dev \in HeldDevs, id \in SearchIds :
          /\ devs[dev].state = "DEV_STATE_CREATED"
          /\ devs[dev].id = NULLSTR
          /\ Commit([Heap EXCEPT !.devs[dev].id = id])

QdevFindRecursive ==
    /\ Running
    /\ \E bus \in HeldBuses, id \in SearchIds :
          /\ qdev_find_recursive(Heap, bus, id) \in DOMAIN devs \cup {NULL}
          /\ UNCHANGED vars

QdevFindIdRecursive ==
    /\ Running
    /\ \E bus \in HeldBuses \cup {NULL}, id \in SearchIds :
          /\ bus = NULL => main_system_bus # NULL
          /\ qdev_find_id_recursive(Heap, bus, id) \in DOMAIN devs \cup {NULL}
          /\ UNCHANGED vars

\* The id searches as functions of the tree: trees are built by the board,
\* with any ids, and searched.
NextFind ==
    \/ SysbusGetDefault
    \/ QdevCreate
    \/ SetId
    \/ QdevInit
    \/ QdevFindRecursive
    \/ QdevFindIdRecursive

SpecFind == Init /\ [][NextFind]_vars

\* the names board code creates devices by where paths are resolved: also a
\* kind whose alias is the name of another
SegmentKinds == KindNames \cup {s_led}

QdevCreateAny ==
    /\ Running
    /\ \E bus \in HeldBuses \cup {NULL}, name \in SegmentKinds :
          /\ Room(1, IF bus = NULL /\ main_system_bus = NULL THEN 1 ELSE 0)
          /\ Commit(qdev_create(Heap, bus, name))

\* the device segments of a path: a name, an alias, an id or a name of
\* nothing, alone or with an instance number
DeviceElems ==
    {name \o q : name \in SegmentKinds \cup {s_br, s_a, s_unknown},
                 q \in {<<>>} \cup {<<".">> \o Decimal(n) : n \in 0..MaxDev}}

QbusFindDev ==
    /\ Running
    /\ \E bus \in HeldBuses, elem \in DeviceElems :
          /\ qbus_find_dev(Heap, bus, elem) \in DOMAIN devs \cup {NULL}
          /\ UNCHANGED vars

\* Device segments as a function of the bus: buses are filled by the board
\* with devices of every kind, with any ids, and segments are looked up.
NextSeg ==
    \/ SysbusGetDefault
    \/ QdevCreateAny
    \/ SetId
    \/ QdevInit
    \/ QbusFindDev

SpecSeg == Init /\ [][NextSeg]_vars

\* before start-up: nothing is registered and nothing exists
InitReg ==
    /\ devs = Empty
    /\ buses = Empty
    /\ main_system_bus = NULL
    /\ qdev_hotplug = 0
    /\ qdev_hot_added = FALSE
    /\ qdev_hot_removed = FALSE
    /\ vmstate = Empty
    /\ reset_handlers = Empty
    /\ device_opts = Empty
    /\ aborted = ""
    /\ registry = NoKinds
    /\ device_state = [vmsd |-> NULL, opaque |-> <<>>]
    /\ b64 = NoTransfer

Registry == registry @@ [aborted |-> aborted]

RECURSIVE Chain(_, _, _)
\* the kinds on the chain of next pointers from info, up to a number of steps
Chain(g, info, steps) ==
    IF info = NULL \/ steps = 0 THEN <<>>
    ELSE <<info>> \o Chain(g, g.next[info], steps - 1)

\* the kinds in the list, as far as a loop over it gets
Linked ==
    With(Chain(registry, registry.device_info_list, Len(DeviceInfos) + 1),
         LAMBDA chain : {chain[i] : i \in 1..Len(chain)})

RegisterCall(info) ==
    \E r \in {qdev_register(Registry, info)} :
       /\ registry' = [k \in {"device_info_list", "next"} |-> r[k]]
       /\ aborted' = r.aborted
       /\ UNCHANGED <<devs, buses, main_system_bus, qdev_hotplug, qdev_hot_added,
                      qdev_hot_removed, vmstate, reset_handlers, device_opts,
                      device_state, b64>>

\* start-up code registers a kind that is not in the list
QdevRegister ==
    /\ Running
    /\ \E info \in (1..Len(DeviceInfos)) \ Linked : RegisterCall(info)

\* qdev_register of a kind that is in the list already
QdevRegisterAgain ==
    /\ Running
    /\ \E info \in Linked : RegisterCall(info)

\* the names looked up: names, aliases, a name of nothing
LookupNames == {s_blinker, s_bridge, s_br, s_nic, s_host, s_led, s_unknown}

\* a lookup that never returns ends the run
QdevFindInfo ==
    /\ Running
    /\ \E bus_info \in {NULL, system_bus_info, pci_bus_info}, name \in LookupNames :
          IF qdev_find_info_in(Registry, bus_info, name) = Hangs
          THEN /\ aborted' = "qdev_find_info: endless loop"
               /\ UNCHANGED <<devs, buses, main_system_bus, qdev_hotplug,
                              qdev_hot_added, qdev_hot_removed, vmstate,
                              reset_handlers, device_opts, registry, device_state,
                              b64>>
          ELSE UNCHANGED vars

\* The registry as start-up code fills it, each kind registered once, in any
\* order, and looked up.
NextReg ==
    \/ QdevRegister
    \/ QdevFindInfo

SpecReg == InitReg /\ [][NextReg]_vars

\* The registry under any sequence of qdev_register calls.
NextRegAny ==
    \/ QdevRegister
    \/ QdevRegisterAgain
    \/ QdevFindInfo

SpecRegAny == InitReg /\ [][NextRegAny]_vars

RECURSIVE Zeroed(_)
\* the state of a device after qemu_mallocz
Zeroed(vmsd) ==
    [k \in 1..Len(VMStateDescriptions[vmsd].fields) |->
        With(VMStateDescriptions[vmsd].fields[k], LAMBDA field :
            [i \in 1..ElemCount(field) |->
                IF "VMS_STRUCT" \in field.flags THEN Zeroed(field.vmsd)
                ELSE [j \in 1..field.size |-> 0]])]

\* the descriptors of the devices shown
ShownDescriptions == {1, 2, 4, 5}

\* a device of some kind that has a state descriptor, just created
InitShow ==
    /\ devs = Empty
    /\ buses = Empty
    /\ main_system_bus = NULL
    /\ qdev_hotplug = 0
    /\ qdev_hot_added = FALSE
    /\ qdev_hot_removed = FALSE
    /\ vmstate = Empty
    /\ reset_handlers = Empty
    /\ device_opts = Empty
    /\ aborted = ""
    /\ registry = [k \in {"device_info_list", "next"} |->
                      Registered(<<1, 2, 3, 4, 5>>)[k]]
    /\ \E vmsd \in ShownDescriptions :
          device_state = [vmsd |-> vmsd, opaque |-> Zeroed(vmsd)]
    /\ b64 = NoTransfer

\* what a device writes into a slot of n bytes: 0, all ones, 4, or the low
\* bytes of 0x1DEADBEEF; into a buffer or a queue 0 or all ones
Contents(field) ==
    {[j \in 1..field.size |-> 0], [j \in 1..field.size |-> 255]}
    \cup (IF field.flags \cap {"VMS_BUFFER", "VMS_QUEUE"} # {} THEN {}
          ELSE {[j \in 1..field.size |-> IF j = 1 THEN 4 ELSE 0],
                SubSeq(<<239, 190, 173, 222, 1, 0, 0, 0>>, 1, field.size)})

\* the device runs and changes one slot of its state, in a nested structure
\* or not
DeviceRuns ==
    /\ Running
    /\ \E k \in 1..Len(VMStateDescriptions[device_state.vmsd].fields) :
       \E field \in {VMStateDescriptions[device_state.vmsd].fields[k]} :
       \E i \in 1..ElemCount(field) :
          /\ IF "VMS_STRUCT" \in field.flags
             THEN \E k2 \in 1..Len(VMStateDescriptions[field.vmsd].fields) :
                  \E field2 \in {VMStateDescriptions[field.vmsd].fields[k2]} :
                  \E c \in Contents(field2) :
                     device_state' = [device_state EXCEPT !.opaque[k][i][k2][1] = c]
             ELSE \E c \in Contents(field) :
                     device_state' = [device_state EXCEPT !.opaque[k][i] = c]
          /\ UNCHANGED <<devs, buses, main_system_bus, qdev_hotplug, qdev_hot_added,
                         qdev_hot_removed, vmstate, reset_handlers, device_opts,
                         aborted, registry, b64>>

\* the introspector walks the device's state; a failed assertion ends the run
ParseVmstate ==
    /\ Running
    /\ \E full_buffers \in {0, 1} :
       \E r \in {parse_vmstate(device_state.vmsd, device_state.opaque,
                               full_buffers, NewWalk)} :
          IF r.aborted # ""
          THEN /\ aborted' = r.aborted
               /\ UNCHANGED <<devs, buses, main_system_bus, qdev_hotplug,
                              qdev_hot_added, qdev_hot_removed, vmstate,
                              reset_handlers, device_opts, registry, device_state,
                              b64>>
          ELSE UNCHANGED vars

\* A device that runs, and the introspector that is shown its state.
NextShow ==
    \/ DeviceRuns
    \/ ParseVmstate

SpecShow == InitShow /\ [][NextShow]_vars

\* the bytes and the characters that blobs and texts are made of: for the
\* bytes 0x00, 0x5A, 0xA5, 0xFF; for the characters 'A', 'z', '/', '=', '@'
Bytes == {0, 90, 165, 255}
TextChars == {65, 122, 47, 61, 64}
RECURSIVE SeqsUpTo(_, _)
SeqsUpTo(S, n) ==
    IF n = 0 THEN {<<>>}
    ELSE With(SeqsUpTo(S, n - 1), LAMBDA shorter :
            shorter \cup {Append(q, x) : q \in {r \in shorter : Len(r) = n - 1}, x \in S})
Blobs == SeqsUpTo(Bytes, MaxSrcLen)
Texts == SeqsUpTo(TextChars, MaxStrLen)

\* a run has a blob to encode, or was handed a text
InitB64 ==
    /\ devs = Empty
    /\ buses = Empty
    /\ main_system_bus = NULL
    /\ qdev_hotplug = 0
    /\ qdev_hot_added = FALSE
    /\ qdev_hot_removed = FALSE
    /\ vmstate = Empty
    /\ reset_handlers = Empty
    /\ device_opts = Empty
    /\ aborted = ""
    /\ registry = [k \in {"device_info_list", "next"} |->
                      Registered(<<1, 2, 3, 4, 5>>)[k]]
    /\ device_state = [vmsd |-> NULL, opaque |-> <<>>]
    /\ \E x \in Blobs, t \in Texts :
          /\ x = <<>> \/ t = <<>>
          /\ b64 = [NoTransfer EXCEPT !.src = x, !.string = t]

Coder(next) ==
    /\ Running
    /\ b64' = next
    /\ UNCHANGED <<devs, buses, main_system_bus, qdev_hotplug, qdev_hot_added,
                   qdev_hot_removed, vmstate, reset_handlers, device_opts,
                   aborted, registry, device_state>>

\* base64_encode(src, srclen, dest) with a dest of the documented size
Base64Encode ==
    /\ "base64_encode" \notin b64.done
    /\ Coder([b64 EXCEPT !.dest = base64_encode(b64.src, Len(b64.src)),
                         !.done = @ \cup {"base64_encode"}])

\* the text encoded becomes the QString that is decoded
QstringFromStr ==
    /\ "base64_encode" \in b64.done
    /\ Coder([b64 EXCEPT !.string = CStr(b64.dest),
                         !.qb = NoTransfer.qb, !.dec = NoTransfer.dec,
                         !.done = {"base64_encode"}])

QbufferFromQstring ==
    /\ "qbuffer_from_qstring" \notin b64.done
    /\ Coder([b64 EXCEPT !.qb = qbuffer_from_qstring(b64.string),
                         !.done = @ \cup {"qbuffer_from_qstring"}])

\* base64_decode of the whole string, padding included
Base64Decode ==
    /\ "base64_decode" \notin b64.done
    /\ Coder([b64 EXCEPT !.dec = base64_decode(b64.string, Len(b64.string)),
                         !.done = @ \cup {"base64_decode"}])

\* The coder: bytes to text, text to bytes.
NextB64 ==
    \/ Base64Encode
    \/ QstringFromStr
    \/ QbufferFromQstring
    \/ Base64Decode

SpecB64 == InitB64 /\ [][NextB64]_vars

(* ------------------------------- claims --------------------------------- *)

\* the children of a list, as a set
Members(list) == {list[i] : i \in 1..Len(list)}

\* in r, the state a call left, no bus that refuses hot-plug has a child it
\* did not have before the call
NoGain(r) ==
    \A b \in DOMAIN buses \cap DOMAIN r.buses :
        ~buses[b].allow_hotplug
            => Members(r.buses[b].children) \subseteq Members(buses[b].children)

\* the requests of direct creation: a bus the caller holds and a kind name
CreateInputs == {in \in [bus : HeldBuses, name : KindNames] : Room(1, 0)}

\* C1 (as amended): once the machine is declared done, a device_add never
\* ends in the hot-plug assertion and leaves no new child on a bus that
\* refuses hot-plug; when it reports BusNoHotplug it has changed nothing.
\* Direct creation that returns leaves no such child either; on a bus that
\* refuses hot-plug it links the device first and then dies on the assertion.
C1_HotplugGate ==
    (Running /\ qdev_hotplug # 0) =>
        /\ \A in \in AddInputs :
              LET r == do_device_add(Heap, in.qdict, in.qmp)
              IN /\ r.aborted # "assert(bus->allow_hotplug)"
                 /\ NoGain(r)
                 /\ (r.err # <<>> /\ r.err[1] = "BusNoHotplug")
                       => /\ r.ret = -1
                          /\ r.devs = devs /\ r.buses = buses
                          /\ r.device_opts = device_opts
        /\ \A in \in CreateInputs :
              LET r == qdev_create(Heap, in.bus, in.name)
              IN /\ r.aborted = "" => NoGain(r)
                 /\ (r.aborted # "hw_error" /\ ~buses[in.bus].allow_hotplug)
                       => /\ r.aborted = "assert(bus->allow_hotplug)"
                          /\ Len(r.buses[in.bus].children)
                                = Len(buses[in.bus].children) + 1

\* C1, reached: the machine is done, a device has been hot-added, a device_add is
\* refused with BusNoHotplug and a direct creation would die on the assertion
C1_Witness ==
    /\ Running /\ qdev_hotplug # 0
    /\ qdev_hot_added
    /\ \E in \in AddInputs :
          LET r == do_device_add(Heap, in.qdict, in.qmp)
          IN r.err # <<>> /\ r.err[1] = "BusNoHotplug"
    /\ \E in \in CreateInputs :
          qdev_create(Heap, in.bus, in.name).aborted = "assert(bus->allow_hotplug)"

\* C1 as stated: once the machine is declared done, no creation request,
\* through device_add or directly, puts a device into the child list of a bus
\* that refuses hot-plug; the direct path aborts instead of inserting.
C1_NeverInserted ==
    (Running /\ qdev_hotplug # 0) =>
        /\ \A in \in AddInputs : NoGain(do_device_add(Heap, in.qdict, in.qmp))
        /\ \A in \in CreateInputs : NoGain(qdev_create(Heap, in.bus, in.name))

\* C2: a device_add that fails, at whichever step, leaves the devices, the
\* buses with their child lists, the migration registrations and
\* machine_modified as they were before the call.
C2_FailedAddRollsBack ==
    Running =>
        \A in \in AddInputs :
            LET r == do_device_add(Heap, in.qdict, in.qmp)
            IN (r.aborted = "" /\ r.ret = -1)
                  => /\ r.devs = devs
                     /\ r.buses = buses
                     /\ r.vmstate = vmstate
                     /\ r.qdev_hot_added = qdev_hot_added

\* C3: every live device sits on a bus of the kind its DeviceInfo names, and
\* no creation path ever trips the assertion that checks it.
C3_KindMatchesBus ==
    /\ \A d \in DOMAIN devs :
          /\ devs[d].parent_bus \in DOMAIN buses
          /\ DeviceInfos[devs[d].info].bus_info = buses[devs[d].parent_bus].info
    /\ aborted # "assert(bus->info == info->bus_info)"

\* C3, reached: a device that device_add put on a PCI bus, next to a device
\* that the board created directly
C3_Witness ==
    /\ \E d \in DOMAIN devs :
          /\ devs[d].opts # NULL
          /\ devs[d].parent_bus \in DOMAIN buses
          /\ buses[devs[d].parent_bus].info = pci_bus_info
    /\ \E d \in DOMAIN devs : devs[d].opts = NULL

\* C4: the migration registry holds exactly the live devices that are
\* Initialised and whose kind has a state descriptor, each once.
C4_MigrationRegistry ==
    vmstate = [d \in {e \in DOMAIN devs :
                         /\ devs[e].state = "DEV_STATE_INITIALIZED"
                         /\ DeviceInfos[devs[e].info].vmsd} |-> 1]

\* C4, reached: a registered device, a Created device of a kind with a state
\* descriptor, and a device freed by a hot-unplug before
C4_Witness ==
    /\ vmstate # Empty
    /\ \E d \in DOMAIN devs :
          /\ devs[d].state = "DEV_STATE_CREATED"
          /\ DeviceInfos[devs[d].info].vmsd
    /\ qdev_hot_removed

\* the Created devices a caller may hand to qdev_init, with what the init
\* callback may do
InitRequests ==
    {in \in [dev : HeldDevs, nb : 0..MaxInitBus, hp : BOOLEAN, rc : {-1, 0}] :
        /\ devs[in.dev].state = "DEV_STATE_CREATED"
        /\ [nb |-> in.nb, hp |-> in.hp, rc |-> in.rc] \in InitInputs(in.dev)}

\* C5 (as amended): where buses come only from init callbacks, a device that
\* is Created between two calls has no child bus; qdev_create returns such a
\* device; and qdev_init, whose callback attaches its buses while the device
\* is still Created, leaves the device Initialised with those buses, or freed
\* when the callback failed.
C5_CreatedHasNoBuses ==
    /\ \A d \in DOMAIN devs :
          devs[d].state = "DEV_STATE_CREATED"
              => devs[d].child_bus = <<>> /\ devs[d].num_child_bus = 0
    /\ Running =>
          /\ \A in \in CreateInputs :
                LET r == qdev_create(Heap, in.bus, in.name)
                IN r.aborted = ""
                      => /\ r.devs[r.ret].state = "DEV_STATE_CREATED"
                         /\ r.devs[r.ret].child_bus = <<>>
                         /\ r.devs[r.ret].num_child_bus = 0
          /\ \A in \in InitRequests :
                LET c == InitCallback(Heap, in.dev, in.nb, in.hp)
                    r == qdev_init(Heap, in.dev, in.nb, in.hp, in.rc)
                IN /\ c.devs[in.dev].state = "DEV_STATE_CREATED"
                   /\ Len(c.devs[in.dev].child_bus) = in.nb
                   /\ r.aborted = ""
                   /\ IF in.rc < 0 THEN in.dev \notin DOMAIN r.devs
                      ELSE /\ r.devs[in.dev].state = "DEV_STATE_INITIALIZED"
                           /\ r.devs[in.dev].child_bus = c.devs[in.dev].child_bus

\* C5, reached: a Created device whose init callback is about to create a bus
C5_Witness ==
    /\ Running
    /\ \E in \in InitRequests : in.nb > 0 /\ in.rc = 0

\* C5 as stated: a Created device has no child bus, in the states between
\* calls and in the state an init callback leaves before qdev_init sets the
\* device Initialised.
C5_NeverAttachedWhileCreated ==
    /\ \A d \in DOMAIN devs :
          devs[d].state = "DEV_STATE_CREATED"
              => devs[d].child_bus = <<>> /\ devs[d].num_child_bus = 0
    /\ Running =>
          \A in \in InitRequests :
              LET c == InitCallback(Heap, in.dev, in.nb, in.hp)
              IN c.devs[in.dev].state = "DEV_STATE_CREATED"
                    => /\ c.devs[in.dev].child_bus = <<>>
                       /\ c.devs[in.dev].num_child_bus = 0

\* the place of x in a list without repetition
PlaceOf(list, x) == CHOOSE i \in 1..Len(list) : list[i] = x

\* C6: after qdev_free(D), D is gone from its parent bus's child list, the
\* other children are all there in the order they had, and every property of
\* D's kind that has a free callback had it called exactly once for D.
C6_FreeUnlinks ==
    Running =>
        \A d \in HeldDevs :
            LET r == qdev_free(Heap, d)
                pb == devs[d].parent_bus
                old == buses[pb].children
                new == r.buses[pb].children
                props == DeviceInfos[devs[d].info].props
            IN /\ r.aborted = ""
               /\ d \notin DOMAIN r.devs
               /\ d \notin Members(new)
               /\ Members(new) = Members(old) \ {d}
               /\ Len(new) = Len(old) - 1
               /\ \A i, j \in 1..Len(new) :
                     i < j => PlaceOf(old, new[i]) < PlaceOf(old, new[j])
               /\ d \in DOMAIN r.freed
               /\ \A k \in 1..Len(props) :
                     r.freed[d][k] = IF props[k].free THEN 1 ELSE 0

\* C6, reached: a bus with three children, the middle one of a kind that has
\* a property with a free callback and one without
C6_Witness ==
    /\ Running
    /\ \E b \in DOMAIN buses :
          /\ Len(buses[b].children) = 3
          /\ buses[b].children[2] \in HeldDevs
          /\ DeviceInfos[devs[buses[b].children[2]].info].name = s_blinker

\* C7: the child buses of one device have pairwise distinct names.
C7_SiblingNamesDistinct ==
    \A d \in DOMAIN devs :
        \A i, j \in 1..Len(devs[d].child_bus) :
            i # j => buses[devs[d].child_bus[i]].name # buses[devs[d].child_bus[j]].name

RECURSIVE UnderRoot(_, _)
\* the chain of parents of the bus ends at the root bus
UnderRoot(h, bus) ==
    /\ bus \in DOMAIN h.buses
    /\ \/ bus = h.main_system_bus
       \/ /\ h.buses[bus].parent \in DOMAIN h.devs
          /\ UnderRoot(h, h.devs[h.buses[bus].parent].parent_bus)

\* the walk from the root bus with callbacks that return 0
RootWalk ==
    qbus_walk_children(Heap, main_system_bus,
                       [d \in DOMAIN devs |-> 0], [b \in DOMAIN buses |-> 0])

\* how often a walk called the callback of a node
Visits(calls, kind, node) ==
    Cardinality({i \in 1..Len(calls) : calls[i][1] = kind /\ calls[i][2] = node})

\* every node of a walk comes after its parent, the start node excepted
ParentsFirst(calls) ==
    \A i \in 1..Len(calls) :
        \/ i = 1
        \/ /\ calls[i][1] = "dev"
           /\ \E j \in 1..(i - 1) :
                 calls[j][1] = "bus" /\ calls[j][2] = devs[calls[i][2]].parent_bus
        \/ /\ calls[i][1] = "bus"
           /\ \E j \in 1..(i - 1) :
                 calls[j][1] = "dev" /\ calls[j][2] = buses[calls[i][2]].parent

\* C9 (as amended): the walk from the root bus returns 0 and calls the
\* callback exactly once for every live bus and device whose chain of parents
\* ends at the root bus, a node before its children, and for no other node:
\* a live bus without a parent device other than the root, what hangs below
\* it, and a bus whose parent device is gone are not visited.
C9_WalkFromRoot ==
    (Running /\ main_system_bus # NULL) =>
        /\ RootWalk.err = 0
        /\ RootWalk.calls[1] = <<"bus", main_system_bus, 0>>
        /\ \A b \in DOMAIN buses :
              Visits(RootWalk.calls, "bus", b) = IF UnderRoot(Heap, b) THEN 1 ELSE 0
        /\ \A d \in DOMAIN devs :
              Visits(RootWalk.calls, "dev", d)
                 = IF UnderRoot(Heap, devs[d].parent_bus) THEN 1 ELSE 0
        /\ ParentsFirst(RootWalk.calls)

\* C9, reached: a root bus with a device that has a bus of its own, and a
\* live bus that is not below the root
C9_Witness ==
    /\ Running /\ main_system_bus # NULL
    /\ \E b \in DOMAIN buses : b # main_system_bus /\ UnderRoot(Heap, b)
    /\ \E b \in DOMAIN buses : ~UnderRoot(Heap, b)

\* C9 as stated: the walk from the root bus calls the callback exactly once
\* for every live device and every live bus, a node before its children.
C9_VisitsEveryLiveNode ==
    (Running /\ main_system_bus # NULL) =>
        /\ \A b \in DOMAIN buses : Visits(RootWalk.calls, "bus", b) = 1
        /\ \A d \in DOMAIN devs : Visits(RootWalk.calls, "dev", d) = 1
        /\ ParentsFirst(RootWalk.calls)

\* the reset walks a caller may start, each with what the bus reset callbacks
\* return: [kind, node, resets]
ResetWalks ==
    {in \in [kind : {"dev", "bus"}, node : HeldDevs \cup HeldBuses,
             resets : [DOMAIN buses -> ResetCodes]] :
        in.node \in (IF in.kind = "dev" THEN HeldDevs ELSE HeldBuses)}

ResetWalk(in) ==
    IF in.kind = "dev" THEN qdev_reset_all(Heap, in.node, in.resets)
    ELSE qbus_reset_all_fn(Heap, in.node, in.resets)

RECURSIVE BusOpen(_, _)
\* the walk comes to the bus if no callback returns a negative code: the bus
\* is the start, or the walk comes to its parent device, whose callback
\* returns 0
BusOpen(in, bus) ==
    \/ in.kind = "bus" /\ in.node = bus
    \/ /\ ~(in.kind = "bus" /\ in.node = bus)
       /\ buses[bus].parent \in DOMAIN devs
       /\ \/ in.kind = "dev" /\ in.node = buses[bus].parent
          \/ /\ ~(in.kind = "dev" /\ in.node = buses[bus].parent)
             /\ devs[buses[bus].parent].parent_bus \in DOMAIN buses
             /\ in.resets[devs[buses[bus].parent].parent_bus] = 0
             /\ BusOpen(in, devs[buses[bus].parent].parent_bus)

\* likewise for a device: it is the start, or the walk comes to its bus and
\* the callback of that bus returns 0
DevOpen(in, dev) ==
    \/ in.kind = "dev" /\ in.node = dev
    \/ /\ ~(in.kind = "dev" /\ in.node = dev)
       /\ devs[dev].parent_bus \in DOMAIN buses
       /\ in.resets[devs[dev].parent_bus] = 0
       /\ BusOpen(in, devs[dev].parent_bus)

\* C10 (as amended): in a reset walk the device callbacks return 0; a
\* negative code from a bus callback ends the walk, which returns that code;
\* a non-zero code from the start node's callback ends the walk with that
\* code; a positive code from a bus below the start only keeps the walk out
\* of what is below that bus: the walk goes on with the next sibling and
\* returns 0.
C10_ResetWalk ==
    Running =>
        \A in \in ResetWalks :
            LET w == ResetWalk(in)
                c == w.calls
            IN /\ c[1] = <<in.kind, in.node,
                            IF in.kind = "dev" THEN 0 ELSE in.resets[in.node]>>
               /\ \A i \in 1..Len(c) :
                     /\ c[i][1] = "dev" => c[i][3] = 0
                     /\ c[i][1] = "bus" => c[i][3] = in.resets[c[i][2]]
                     /\ c[i][3] < 0 => i = Len(c) /\ w.err = c[i][3]
               /\ c[1][3] # 0 => Len(c) = 1 /\ w.err = c[1][3]
               /\ (c[1][3] = 0 /\ \A i \in 1..Len(c) : c[i][3] >= 0)
                     => /\ w.err = 0
                        /\ \A b \in DOMAIN buses :
                              Visits(c, "bus", b) = IF BusOpen(in, b) THEN 1 ELSE 0
                        /\ \A d \in DOMAIN devs :
                              Visits(c, "dev", d) = IF DevOpen(in, d) THEN 1 ELSE 0

\* C10, reached: one walk goes on after a bus callback returned a positive
\* code and returns 0, another ends at a negative code before it has been
\* everywhere
C10_Witness ==
    /\ Running
    /\ \E in \in ResetWalks :
          LET w == ResetWalk(in)
          IN /\ w.err = 0
             /\ \E i \in 1..(Len(w.calls) - 1) : w.calls[i][3] > 0
    /\ \E in \in ResetWalks :
          LET w == ResetWalk(in)
          IN /\ w.err < 0
             /\ \E d \in DOMAIN devs : DevOpen(in, d) /\ Visits(w.calls, "dev", d) = 0

\* C10 as stated: a non-zero code from any callback of a reset walk, positive
\* or negative and at any depth, is the last call of the walk and what the
\* walk returns.
C10_AnyCodeHalts ==
    Running =>
        \A in \in ResetWalks :
            LET w == ResetWalk(in)
            IN \A i \in 1..Len(w.calls) :
                  w.calls[i][3] # 0 => i = Len(w.calls) /\ w.err = w.calls[i][3]

\* C11: the reset-handler registry holds exactly the live buses that have no
\* parent device and are not the root bus, each once.
C11_ResetRegistry ==
    reset_handlers = [b \in {c \in DOMAIN buses :
                                /\ buses[c].parent = NULL
                                /\ c # main_system_bus} |-> 1]

\* the calls of the board and the monitor that return, each with the state it
\* leaves and whether it is a hot-add or a hot-remove: a device created after
\* the machine was declared done, or an unplug that passed its hot-plug check
HotCalls ==
    {[r |-> qdev_create(Heap, in.bus, in.name), hot |-> qdev_hotplug # 0] :
        in \in CreateInputs}
    \cup {[r |-> do_device_add(Heap, in.qdict, in.qmp),
           hot |-> /\ qdev_hotplug # 0
                   /\ LET r == do_device_add(Heap, in.qdict, in.qmp)
                      IN \/ r.ret = 0 /\ Cardinality(DOMAIN r.devs) > Cardinality(DOMAIN devs)
                         \/ /\ r.err # <<>>
                            /\ r.err[1] \in {"PropertyParseRejected", "DeviceInitFailed"}] :
        in \in AddInputs}
    \cup {[r |-> qdev_unplug(Heap, dev),
           hot |-> buses[devs[dev].parent_bus].allow_hotplug] : dev \in HeldDevs}
    \cup {[r |-> do_device_del(Heap, id),
           hot |-> /\ main_system_bus # NULL
                   /\ LET dev == qdev_find_recursive(Heap, main_system_bus, id)
                      IN dev # NULL /\ buses[devs[dev].parent_bus].allow_hotplug] :
        id \in Ids \ {NULLSTR}}
    \cup {[r |-> qdev_init(Heap, in.dev, in.nb, in.hp, in.rc), hot |-> FALSE] :
        in \in InitRequests}
    \cup {[r |-> qdev_free(Heap, dev), hot |-> FALSE] : dev \in HeldDevs}
    \cup {[r |-> qdev_machine_creation_done(Heap), hot |-> FALSE]}

\* C12: machine_modified is false at the start; a call that returns leaves it
\* true exactly if it was true before or the call is a hot-add or hot-remove,
\* and a device created after the machine was declared done is hotplugged;
\* from one state to the next neither machine_modified nor the hot-plug mode
\* flag goes back to false.
C12_MachineModifiedLatch ==
    /\ ~qdev_machine_modified(Heap)
    /\ [](Running =>
            /\ \A c \in HotCalls :
                  (c.r.aborted = "")
                     => (qdev_machine_modified(c.r)
                            = (qdev_machine_modified(Heap) \/ c.hot))
            /\ \A in \in CreateInputs :
                  LET r == qdev_create(Heap, in.bus, in.name)
                  IN r.aborted = ""
                        => r.devs[r.ret].hotplugged = (qdev_hotplug # 0))
    /\ [][/\ (qdev_machine_modified(Heap) => (qdev_hot_added' \/ qdev_hot_removed'))
           /\ (qdev_hotplug # 0 => qdev_hotplug' # 0)]_vars

\* C12, reached: after the machine was declared done a device was hot-added
\* and a device was hot-removed, and a further unplug is refused
C12_Witness ==
    /\ Running /\ qdev_hotplug # 0
    /\ qdev_hot_added /\ qdev_hot_removed
    /\ \E dev \in HeldDevs : qdev_unplug(Heap, dev).ret = -1

\* the bus a device_add comes to, when it comes as far as the hot-plug gate:
\* the bag is accepted, the driver names a kind users may create, and the bus
\* option, or the search by BusInfo, yields a bus the kind fits; else NULL
ResolvedBus(in) ==
    IF in.qdict.driver = NULLSTR \/ (~in.qmp /\ qdev_device_help(in.qdict) # 0)
    THEN NULL
    ELSE With(qemu_opts_from_qdict(Heap, in.qdict.id), LAMBDA parsed :
         With(qdev_find_info(NULL, in.qdict.driver), LAMBDA info :
            IF parsed.ret = NULL \/ info = NULL THEN NULL
            ELSE IF DeviceInfos[info].no_user THEN NULL
            ELSE With(AddBus(parsed, in.qdict, info), LAMBDA found :
                    IF found.aborted # "" THEN NULL ELSE found.ret)))

\* C13: after the machine was declared done, a device_add whose resolved bus
\* refuses hot-plug returns -1 with BusNoHotplug naming the bus, and leaves
\* the devices, the buses with their child lists, the registries, the option
\* group and machine_modified as they were.
C13_GateBeforeAllocation ==
    (Running /\ qdev_hotplug # 0) =>
        \A in \in AddInputs :
            LET bus == ResolvedBus(in)
                r == do_device_add(Heap, in.qdict, in.qmp)
            IN (bus # NULL /\ ~buses[bus].allow_hotplug)
                  => /\ r.aborted = ""
                     /\ r.ret = -1
                     /\ r.err = <<"BusNoHotplug", buses[bus].name>>
                     /\ r.devs = devs
                     /\ r.buses = buses
                     /\ r.vmstate = vmstate
                     /\ r.reset_handlers = reset_handlers
                     /\ r.device_opts = device_opts
                     /\ r.qdev_hot_added = qdev_hot_added
                     /\ r.qdev_hot_removed = qdev_hot_removed
                     /\ qdev_machine_modified(r) = qdev_machine_modified(Heap)

\* C13, reached: a blinker added by device_add before the machine was declared
\* done, machine_modified false, and a second device_add of a blinker that
\* comes to the root bus, which refuses hot-plug
C13_Witness ==
    /\ Running /\ qdev_hotplug # 0
    /\ ~qdev_machine_modified(Heap)
    /\ \E d \in DOMAIN devs :
          devs[d].opts # NULL /\ DeviceInfos[devs[d].info].name = s_blinker
    /\ \E in \in AddInputs :
          /\ in.qdict.driver = s_blinker
          /\ ResolvedBus(in) = main_system_bus
          /\ ~buses[main_system_bus].allow_hotplug

\* C14: qdev_unplug of a device whose parent bus refuses hot-plug returns -1
\* with BusNoHotplug naming the bus and changes nothing; on a bus that allows
\* it, for a kind with an unplug callback, it sets the hot-removed flag, so
\* that machine_modified is true, and returns what the callback returns: 0
\* from qdev_simple_unplug_cb, which has freed the device, and 0 from a
\* callback that defers, which has left it.  device_del of the id of a
\* device is qdev_unplug of that device.
C14_Unplug ==
    Running =>
        /\ \A dev \in HeldDevs :
              LET r == qdev_unplug(Heap, dev)
                  pb == devs[dev].parent_bus
                  unplug == DeviceInfos[devs[dev].info].unplug
              IN /\ ~buses[pb].allow_hotplug
                       => /\ r.aborted = ""
                          /\ r.ret = -1
                          /\ r.err = <<"BusNoHotplug", buses[pb].name>>
                          /\ [r EXCEPT !.ret = 0, !.err = <<>>] = Heap
                 /\ (buses[pb].allow_hotplug /\ unplug # "none")
                       => /\ r.aborted = ""
                          /\ r.ret = 0 /\ r.err = <<>>
                          /\ r.qdev_hot_removed
                          /\ qdev_machine_modified(r)
                          /\ r.qdev_hot_added = qdev_hot_added
                          /\ (dev \notin DOMAIN r.devs) = (unplug = "simple")
                          /\ unplug = "deferred"
                                => [r EXCEPT !.qdev_hot_removed = qdev_hot_removed] = Heap
        /\ main_system_bus # NULL =>
              \A id \in Ids \ {NULLSTR} :
                 LET dev == qdev_find_recursive(Heap, main_system_bus, id)
                 IN dev # NULL => do_device_del(Heap, id) = qdev_unplug(Heap, dev)

\* C14, reached: a device on a bus that refuses hot-plug, a device with an id
\* on a bus that allows it whose kind unplugs by qdev_simple_unplug_cb, and
\* machine_modified still false
C14_Witness ==
    /\ Running
    /\ ~qdev_machine_modified(Heap)
    /\ \E dev \in HeldDevs : ~buses[devs[dev].parent_bus].allow_hotplug
    /\ \E dev \in HeldDevs :
          /\ buses[devs[dev].parent_bus].allow_hotplug
          /\ DeviceInfos[devs[dev].info].unplug = "simple"
          /\ devs[dev].id # NULLSTR
          /\ qdev_find_recursive(Heap, main_system_bus, devs[dev].id) = dev

\* C15: where a device that device_add created with id X is found by
\* device_del(X) and its kind unplugs by qdev_simple_unplug_cb, the call
\* returns 0 and the device is freed; in the state it leaves, qdev_find of X
\* and qdev_find_recursive of X from the root return no device, qdev_find
\* reports DeviceNotFound(X), and a second device_del(X) returns -1 with
\* DeviceNotFound(X) and changes nothing.  In every state an id that no live
\* device has is looked up with the same result.
C15_DelThenNotFound ==
    (Running /\ main_system_bus # NULL) =>
        \A X \in Ids \ {NULLSTR} :
            LET dev == qdev_find_recursive(Heap, main_system_bus, X)
                r == do_device_del(Heap, X)
                after == IF dev # NULL THEN [r EXCEPT !.ret = 0, !.err = <<>>] ELSE Heap
                gone == \/ /\ dev # NULL
                           /\ devs[dev].opts # NULL
                           /\ r.ret = 0
                           /\ DeviceInfos[devs[dev].info].unplug = "simple"
                        \/ \A d \in DOMAIN devs : devs[d].id # X
            IN /\ (dev # NULL /\ r.ret = 0
                      /\ DeviceInfos[devs[dev].info].unplug = "simple")
                     => dev \notin DOMAIN r.devs /\ r.qdev_hot_removed
               /\ gone =>
                     /\ qdev_find_recursive(after, main_system_bus, X) = NULL
                     /\ qdev_find(after, X, TRUE).ret = NULL
                     /\ qdev_find(after, X, TRUE).err = <<"DeviceNotFound", X>>
                     /\ qdev_find(after, X, FALSE).ret = NULL
                     /\ do_device_del(after, X)
                           = [after EXCEPT !.ret = -1, !.err = <<"DeviceNotFound", X>>]

\* C15, reached: a device that device_add created with an id, on a bus that
\* allows hot-plug, of a kind that unplugs by qdev_simple_unplug_cb, next to
\* other devices
C15_Witness ==
    /\ Running /\ main_system_bus # NULL
    /\ Cardinality(DOMAIN devs) >= 2
    /\ \E X \in Ids \ {NULLSTR} :
          LET dev == qdev_find_recursive(Heap, main_system_bus, X)
          IN /\ dev # NULL
             /\ devs[dev].opts # NULL
             /\ DeviceInfos[devs[dev].info].unplug = "simple"
             /\ do_device_del(Heap, X).ret = 0
             /\ qdev_find(Heap, X, TRUE).ret = dev

\* C16: qbus_find of "/" returns the root bus, which it creates if need be,
\* and no operation that starts from the root finds the root pointer NULL.
C16_RootOnDemand ==
    Running =>
        /\ LET r == qbus_find(Heap, <<"/">>)
           IN /\ r.aborted = ""
              /\ r.ret # NULL
              /\ r.ret = r.main_system_bus
              /\ r.ret \in DOMAIN r.buses
        /\ \A in \in AddInputs : do_device_add(Heap, in.qdict, in.qmp).aborted = ""
        /\ \A id \in Ids \ {NULLSTR} :
              /\ do_device_del(Heap, id).aborted = ""
              /\ qdev_find(Heap, id, TRUE).aborted = ""

s_bogus == <<"b", "o", "g", "u", "s">>

\* single segments of an absolute path: names of no kind, a bus name, an id
Segments == {s_bogus, s_unknown, s_pci_0, s_a}

\* no child of the root bus has the segment's name, without its instance
\* number, as kind name or alias
MatchesNothing(seg) ==
    LET name == IF ScanInstance(seg).n = 2 THEN ScanInstance(seg).buf ELSE seg
        list == buses[main_system_bus].children
    IN \A i \in 1..Len(list) :
          /\ DeviceInfos[devs[list[i]].info].name # name
          /\ DeviceInfos[devs[list[i]].info].alias # name

\* the bags of a device_add for a blinker with one more option, bus = "/<seg>"
SegmentAdds(seg) ==
    {[in EXCEPT !.qdict.bus = <<"/">> \o seg] :
        in \in {a \in AddInputs : a.qdict.driver = s_blinker /\ ~a.qmp
                                    /\ a.qdict.id = NULLSTR}}

\* the outcome of resolving "/<seg>" in qbus_find and in a device_add for a
\* blinker with bus = "/<seg>": no bus, the error kind with the whole
\* segment, a device_add that returns -1, and nothing changed but the bag of
\* the call made and released
Unresolved(seg, kind) ==
    /\ qbus_find(Heap, <<"/">> \o seg)
          = [Heap EXCEPT !.ret = NULL, !.err = <<kind, seg>>]
    /\ \A in \in SegmentAdds(seg) :
          do_device_add(Heap, in.qdict, in.qmp)
             = [Heap EXCEPT !.ret = -1, !.err = <<kind, seg>>,
                            !.released = (qemu_opts_from_qdict(Heap, in.qdict.id).ret :> 1)]

\* C17 (as amended): with the root bus there, an absolute path "/<seg>" whose
\* segment matches no child of the root bus by kind name or alias fails with
\* DeviceNotFound carrying the whole segment, also when the segment is the
\* id of a device or the name of a bus.
C17_SegmentNotFound ==
    (Running /\ main_system_bus # NULL) =>
        \A seg \in Segments : MatchesNothing(seg) => Unresolved(seg, "DeviceNotFound")

\* C17, reached: the root bus has children, one of them with the id "a", and
\* a device_add for a blinker may come
C17_Witness ==
    /\ Running /\ main_system_bus # NULL
    /\ Len(buses[main_system_bus].children) >= 2
    /\ \E d \in DOMAIN devs : devs[d].parent_bus = main_system_bus /\ devs[d].id = s_a
    /\ \A b \in DOMAIN buses : buses[b].info # pci_bus_info
    /\ SegmentAdds(s_pci_0) # {}
    /\ \A seg \in Segments : MatchesNothing(seg)

\* C17 as stated: such a path fails with BusNotFound carrying the segment.
C17_BusNotFound ==
    (Running /\ main_system_bus # NULL) =>
        \A seg \in Segments : MatchesNothing(seg) => Unresolved(seg, "BusNotFound")

RECURSIVE BusPath(_, _)
RECURSIVE DevPath(_, _)
\* the absolute path of a bus below the root: the path of its parent device
\* and "/<bus name>"; the root bus itself adds nothing
BusPath(h, bus) ==
    IF bus = h.main_system_bus THEN <<>>
    ELSE DevPath(h, h.buses[bus].parent) \o <<"/">> \o h.buses[bus].name

\* the absolute path of a device: the path of its bus and
\* "/<kind name>.<qdev_instance_no>"
DevPath(h, dev) ==
    BusPath(h, h.devs[dev].parent_bus) \o <<"/">>
       \o DeviceInfos[h.devs[dev].info].name \o <<".">>
       \o Decimal(qdev_instance_no(h, dev))

\* C18: the constructed path of every live device below the root resolves
\* through qdev_find to that device, and the constructed path of every live
\* bus below the root, "/" for the root bus, through qbus_find to that bus.
C18_PathRoundTrip ==
    (Running /\ main_system_bus # NULL) =>
        /\ \A d \in DOMAIN devs :
              UnderRoot(Heap, devs[d].parent_bus)
                 => qdev_find(Heap, DevPath(Heap, d), TRUE)
                       = [Heap EXCEPT !.ret = d]
        /\ \A b \in DOMAIN buses :
              UnderRoot(Heap, b)
                 => qbus_find(Heap, IF b = main_system_bus THEN <<"/">>
                                    ELSE BusPath(Heap, b))
                       = [Heap EXCEPT !.ret = b]

\* the first device with the id in the pre-order below the bus: the children
\* in list order, a device before the devices under its child buses
FirstInPreorder(bus, id) ==
    LET below == PreorderBuses(Heap, <<bus>>).d
        hits == SelectSeq(below, LAMBDA d : devs[d].id # NULLSTR /\ devs[d].id = id)
    IN IF hits = <<>> THEN NULL ELSE Head(hits)

\* C19: from every bus and for every id, qdev_find_recursive and
\* qdev_find_id_recursive both return the first device in pre-order below the
\* bus that has the id, or NULL when none has; with NULL for the bus,
\* qdev_find_id_recursive searches from the root bus.
C19_SearchesAgree ==
    Running =>
        /\ \A bus \in HeldBuses, id \in SearchIds :
              /\ qdev_find_recursive(Heap, bus, id) = FirstInPreorder(bus, id)
              /\ qdev_find_id_recursive(Heap, bus, id) = FirstInPreorder(bus, id)
        /\ main_system_bus # NULL =>
              \A id \in SearchIds :
                 qdev_find_id_recursive(Heap, NULL, id)
                    = FirstInPreorder(main_system_bus, id)

\* C19, reached: two devices with the same id, one below a child bus of the
\* other, which both searches from the root bus come to first
C19_Witness ==
    /\ Running /\ main_system_bus # NULL
    /\ \E d1, d2 \in DOMAIN devs :
          /\ d1 # d2
          /\ devs[d1].id = s_a /\ devs[d2].id = s_a
          /\ devs[d2].parent_bus \in Members(devs[d1].child_bus)
          /\ qdev_find_recursive(Heap, main_system_bus, s_a) = d1
          /\ qdev_find_id_recursive(Heap, NULL, s_a) = d1

\* C20: when the init callback fails, qdev_init returns its code and leaves
\* the device freed, in no child list and not registered for migration, and
\* no bus that points to the freed device as its parent: the buses are those
\* from before the call.
C20_FailedInitFreesAll ==
    Running =>
        \A in \in InitRequests :
            LET r == qdev_init(Heap, in.dev, in.nb, in.hp, in.rc)
            IN in.rc < 0
                  => /\ r.aborted = ""
                     /\ r.ret = in.rc
                     /\ in.dev \notin DOMAIN r.devs
                     /\ \A b \in DOMAIN r.buses :
                           /\ in.dev \notin Members(r.buses[b].children)
                           /\ r.buses[b].parent # in.dev
                     /\ DOMAIN r.buses = DOMAIN buses
                     /\ in.dev \notin DOMAIN r.vmstate

\* the buses and devices of h below a list of buses, those buses included
Below(h, buslist) ==
    With(PreorderBuses(h, buslist), LAMBDA sub :
        [b |-> Members(sub.b), d |-> Members(sub.d)])

\* device x, live before the call that left r, was torn down by it: every
\* free callback of its properties ran once, and the exit callback of its
\* kind ran once if x had been initialised
TornDown(r, x) ==
    /\ x \in DOMAIN r.freed
    /\ \A k \in 1..Len(DeviceInfos[devs[x].info].props) :
          r.freed[x][k] = IF DeviceInfos[devs[x].info].props[k].free THEN 1 ELSE 0
    /\ (devs[x].state = "DEV_STATE_INITIALIZED" /\ DeviceInfos[devs[x].info].exit)
          => (x \in DOMAIN r.exited /\ r.exited[x] = 1)

\* C21: qdev_free of an Initialised device and qbus_free of a bus other than
\* the root return, and afterwards neither the freed node nor any bus or
\* device that was below it is live, every device below it was torn down,
\* and the num_child_bus of the freed bus's parent device is one less.
C21_FreeRemovesSubtree ==
    Running =>
        /\ \A d \in HeldDevs :
              devs[d].state = "DEV_STATE_INITIALIZED" =>
                 \E r \in {qdev_free(Heap, d)}, sub \in {Below(Heap, devs[d].child_bus)} :
                    /\ r.aborted = ""
                    /\ d \notin DOMAIN r.devs
                    /\ sub.b \cap DOMAIN r.buses = {}
                    /\ sub.d \cap DOMAIN r.devs = {}
                    /\ \A x \in sub.d \cup {d} : TornDown(r, x)
        /\ \A b \in HeldBuses \ {main_system_bus} :
              \E r \in {qbus_free(Heap, b)}, sub \in {Below(Heap, <<b>>)} :
                 /\ r.aborted = ""
                 /\ sub.b \cap DOMAIN r.buses = {}
                 /\ sub.d \cap DOMAIN r.devs = {}
                 /\ \A x \in sub.d : TornDown(r, x)
                 /\ buses[b].parent # NULL
                       => r.devs[buses[b].parent].num_child_bus
                             = devs[buses[b].parent].num_child_bus - 1

\* the option bags of the devices in D
BagsOf(D) == {devs[d].opts : d \in D} \ {NULL}

\* C22: the bag of a device_add is released exactly once.  Every live bag
\* of the group is the bag of exactly one live device; a device_add that
\* fails or only prints help releases its bag once and no other bag, one that
\* succeeds releases none and leaves its bag on the new device; qdev_free and
\* device_del release, once each, the bags of the devices they free and no
\* other, so that no bag outlives its device.
C22_BagReleasedOnce ==
    Running =>
        /\ \A o \in DOMAIN device_opts :
              Cardinality({d \in DOMAIN devs : devs[d].opts = o}) = 1
        /\ BagsOf(DOMAIN devs) \subseteq DOMAIN device_opts
        /\ \A in \in AddInputs :
              \E r \in {do_device_add(Heap, in.qdict, in.qmp)},
                 new \in {qemu_opts_from_qdict(Heap, in.qdict.id).ret} :
                 r.aborted = "" =>
                    /\ new = NULL => (r.released = Empty /\ r.ret = -1)
                    /\ (new # NULL /\ (r.ret # 0 \/ in.qdict.driver = <<"?">>))
                          => /\ r.released = (new :> 1)
                             /\ r.device_opts = device_opts
                             /\ \A d \in DOMAIN r.devs : r.devs[d].opts # new
                    /\ (new # NULL /\ r.ret = 0 /\ in.qdict.driver # <<"?">>)
                          => /\ r.released = Empty
                             /\ DOMAIN r.device_opts = DOMAIN device_opts \cup {new}
                             /\ Cardinality({d \in DOMAIN r.devs :
                                                r.devs[d].opts = new}) = 1
        /\ \A d \in HeldDevs :
              \E r \in {qdev_free(Heap, d)} :
                 r.aborted = "" =>
                    /\ r.released = [o \in BagsOf(DOMAIN devs \ DOMAIN r.devs) |-> 1]
                    /\ DOMAIN r.device_opts = DOMAIN device_opts \ DOMAIN r.released
        /\ \A id \in Ids \ {NULLSTR} :
              main_system_bus # NULL =>
                 \E r \in {do_device_del(Heap, id)} :
                    r.aborted = "" =>
                       /\ r.released = [o \in BagsOf(DOMAIN devs \ DOMAIN r.devs) |-> 1]
                       /\ DOMAIN r.device_opts = DOMAIN device_opts \ DOMAIN r.released

\* C22, reached: a device that carries a bag sits below another device that
\* carries one, so that freeing the upper one releases both
C22_Witness ==
    /\ Running
    /\ \E d1, d2 \in HeldDevs :
          /\ devs[d1].opts # NULL /\ devs[d2].opts # NULL
          /\ devs[d1].opts # devs[d2].opts
          /\ devs[d2].parent_bus \in Members(devs[d1].child_bus)
          /\ qdev_free(Heap, d1).released = (devs[d1].opts :> 1) @@ (devs[d2].opts :> 1)

\* the bags whose driver names a kind that device_add accepts
UserBags ==
    {q \in Bags : /\ qdev_find_info(NULL, q.driver) # NULL
                  /\ ~DeviceInfos[qdev_find_info(NULL, q.driver)].no_user}

\* the buses below the root, the root first, in pre-order
FromRoot == PreorderBuses(Heap, <<main_system_bus>>).b

\* the call that left r created nothing: devices and buses are as before
NothingCreated(r) == r.devs = devs /\ r.buses = buses

\* C23: in a machine that has its root bus, qdev_device_add with a bus option
\* that resolves to a bus uses that bus if its BusInfo is the kind's, and
\* otherwise fails with BadBusForDevice and creates nothing; without a bus
\* option a device it creates is on the first bus in pre-order from the root
\* that has the kind's BusInfo, and without such a bus the call fails with
\* NoBusForDevice and creates nothing.
C23_BusSelection ==
    (Running /\ main_system_bus # NULL) =>
        \A q \in UserBags :
            \E r \in {qdev_device_add(Heap, 1, q)},
               kind \in {DeviceInfos[qdev_find_info(NULL, q.driver)]},
               pre \in {FromRoot} :
               IF q.bus # NULLSTR
               THEN \E found \in {qbus_find(Heap, q.bus)} :
                       (found.aborted = "" /\ found.ret # NULL) =>
                          IF buses[found.ret].info = kind.bus_info
                          THEN (r.aborted = "" /\ r.ret # NULL)
                                  => r.devs[r.ret].parent_bus = found.ret
                          ELSE /\ r.aborted = ""
                               /\ r.ret = NULL
                               /\ r.err[1] = "BadBusForDevice"
                               /\ NothingCreated(r)
               ELSE \E I \in {{i \in 1..Len(pre) : buses[pre[i]].info = kind.bus_info}} :
                       IF I = {}
                       THEN /\ r.aborted = ""
                            /\ r.ret = NULL
                            /\ r.err[1] = "NoBusForDevice"
                            /\ NothingCreated(r)
                       ELSE (r.aborted = "" /\ r.ret # NULL)
                               => r.devs[r.ret].parent_bus = pre[Min(I)]

\* C23, reached: a bridge with two PCI buses, where a nic added without a bus
\* option comes to the one that is first in the bridge's list, and a nic
\* added with the root as its bus option is refused
C23_Witness ==
    /\ Running
    /\ main_system_bus # NULL
    /\ \E d \in HeldDevs, q \in UserBags :
          /\ devs[d].parent_bus = main_system_bus
          /\ Len(devs[d].child_bus) = 2
          /\ \A i \in 1..2 : buses[devs[d].child_bus[i]].info = pci_bus_info
          /\ q.driver = s_nic /\ q.bus = NULLSTR
          /\ qdev_device_add(Heap, 1, q).ret # NULL
          /\ qdev_device_add(Heap, 1, q).devs[qdev_device_add(Heap, 1, q).ret].parent_bus
                = devs[d].child_bus[1]
          /\ qdev_device_add(Heap, 1, [q EXCEPT !.bus = <<"/">>]).err[1]
                = "BadBusForDevice"

\* the names a device segment may carry: kind names and the alias
DeviceSegments == KindNames \cup {s_br}

\* C24: a path from the root that ends on a device segment, with or without
\* a closing slash, resolves to the device's child bus if the device has
\* exactly one, and fails with DeviceNoBus if it has none and with
\* DeviceMultipleBuses if it has two or more, each naming the segment; and
\* num_child_bus of every device is the length of its child list.
C24_TrailingDevice ==
    (Running /\ main_system_bus # NULL) =>
        /\ \A d \in DOMAIN devs : devs[d].num_child_bus = Len(devs[d].child_bus)
        /\ \A seg \in DeviceSegments, tail \in {<<>>, <<"/">>} :
              \E dev \in {qbus_find_dev(Heap, main_system_bus, seg)},
                 r \in {qbus_find(Heap, <<"/">> \o seg \o tail)} :
                 dev # NULL =>
                    /\ r.aborted = ""
                    /\ Len(devs[dev].child_bus) = 0
                          => (r.ret = NULL /\ r.err = <<"DeviceNoBus", seg>>)
                    /\ Len(devs[dev].child_bus) = 1
                          => (r.ret = devs[dev].child_bus[1] /\ r.err = <<>>)
                    /\ Len(devs[dev].child_bus) >= 2
                          => (r.ret = NULL /\ r.err = <<"DeviceMultipleBuses", seg>>)

\* C24, reached: the path "/bridge" where the bridge on the root bus has two
\* child buses
C24_Witness ==
    /\ Running
    /\ main_system_bus # NULL
    /\ \E dev \in {qbus_find_dev(Heap, main_system_bus, s_bridge)} :
          /\ dev # NULL
          /\ Len(devs[dev].child_bus) = 2
          /\ qbus_find(Heap, <<"/">> \o s_bridge).err[1] = "DeviceMultipleBuses"

\* the places in a list of devices that hold the n-th device, from 0, among
\* those whose kind has the name (field "name" or "alias") given
NthPlace(list, field, name, n) ==
    {i \in 1..Len(list) :
        /\ DeviceInfos[devs[list[i]].info][field] = name
        /\ Cardinality({j \in 1..(i - 1) :
                           DeviceInfos[devs[list[j]].info][field] = name}) = n}

\* C25: qbus_find_dev of "name.n", or of "name" with n = 0, returns the n-th
\* child, from 0 in list order, among the children whose kind name is name;
\* if there is none, the n-th among the children whose kind alias is name;
\* if there is none either, no device.  No id enters: a segment that is the
\* id of a child and the name or alias of none finds nothing.
C25_DeviceSegment ==
    Running =>
        \A bus \in HeldBuses, name \in SegmentKinds \cup {s_br, s_a, s_unknown},
           n \in 0..MaxDev :
            \E list \in {buses[bus].children} :
            \E byName \in {NthPlace(list, "name", name, n)},
               byAlias \in {NthPlace(list, "alias", name, n)} :
            \E expected \in {IF byName # {} THEN list[Min(byName)]
                             ELSE IF byAlias # {} THEN list[Min(byAlias)]
                             ELSE NULL} :
               /\ qbus_find_dev(Heap, bus, name \o <<".">> \o Decimal(n)) = expected
               /\ n = 0 => qbus_find_dev(Heap, bus, name) = expected

\* C25, reached: a bus with one blinker between two devices of a kind whose
\* alias is "blinker": "blinker.1" names no second blinker and so the second
\* of the two; and a child whose id is "a"
C25_Witness ==
    /\ Running
    /\ \E bus \in HeldBuses :
          /\ Len(buses[bus].children) = 3
          /\ DeviceInfos[devs[buses[bus].children[1]].info].name = s_led
          /\ DeviceInfos[devs[buses[bus].children[2]].info].name = s_blinker
          /\ DeviceInfos[devs[buses[bus].children[3]].info].name = s_led
          /\ devs[buses[bus].children[1]].id = s_a
          /\ qbus_find_dev(Heap, bus, s_blinker \o <<".", "1">>) = buses[bus].children[3]
          /\ qbus_find_dev(Heap, bus, s_a) = NULL

\* the children of a bus of h that are of one kind, in list order
SameKind(h, bus, info) ==
    SelectSeq(h.buses[bus].children, LAMBDA d : h.devs[d].info = info)

\* C26: qdev_instance_no(D) is the number of devices of D's kind before D in
\* the child list of D's bus, so the k children of one kind on a bus have the
\* numbers 0..k-1, in list order; a device that qdev_create has just made has
\* number 0, every older sibling of its kind has one more than before, and
\* every other device has the number it had.
C26_InstanceNo ==
    Running =>
        /\ \A bus \in HeldBuses, info \in 1..Len(DeviceInfos) :
              \E same \in {SameKind(Heap, bus, info)} :
                 \A i \in 1..Len(same) : qdev_instance_no(Heap, same[i]) = i - 1
        /\ \A bus \in HeldBuses, name \in SegmentKinds :
              \E r \in {qdev_create(Heap, bus, name)} :
                 r.aborted = "" =>
                    /\ r.ret \notin DOMAIN devs
                    /\ qdev_instance_no(r, r.ret) = 0
                    /\ \A d \in DOMAIN devs :
                          qdev_instance_no(r, d)
                             = qdev_instance_no(Heap, d)
                               + (IF /\ devs[d].parent_bus = bus
                                     /\ devs[d].info = r.devs[r.ret].info
                                  THEN 1 ELSE 0)

\* C26, reached: a bus whose children are of two kinds, two of one kind with
\* a device of the other between them
C26_Witness ==
    /\ Running
    /\ \E bus \in HeldBuses :
          /\ Len(buses[bus].children) = 3
          /\ devs[buses[bus].children[1]].info = devs[buses[bus].children[3]].info
          /\ devs[buses[bus].children[1]].info # devs[buses[bus].children[2]].info
          /\ qdev_instance_no(Heap, buses[bus].children[3]) = 1
          /\ qdev_instance_no(Heap, buses[bus].children[2]) = 0

\* kind k passes the bus filter and has the name, or else the alias, looked up
HasName(k, bus_info, name) ==
    /\ (bus_info = NULL \/ DeviceInfos[k].bus_info = bus_info)
    /\ DeviceInfos[k].name = name
HasAlias(k, bus_info, name) ==
    /\ (bus_info = NULL \/ DeviceInfos[k].bus_info = bus_info)
    /\ DeviceInfos[k].alias # NULLSTR
    /\ DeviceInfos[k].alias = name

BusFilters == {NULL, system_bus_info, pci_bus_info}

\* C27: in a registry where each kind was registered once, with nothing
\* registered a lookup finds nothing, and after qdev_register(k) a lookup
\* returns k if k has the name and passes the filter; else what it returned
\* before if that kind has the name; else k if k has the alias and passes the
\* filter; else what it returned before.  So the result is the kind registered
\* last among those that have the name, or without any the kind registered
\* last among those that have the alias, or NULL; it is the first such kind
\* on the chain of next pointers; and in the registry after start-up it is
\* what the lookups of the machine return.
C27_RegistryLookup ==
    Running =>
        \A bus_info \in BusFilters, name \in LookupNames :
            \E was \in {qdev_find_info_in(Registry, bus_info, name)},
               chain \in {Chain(registry, registry.device_info_list, Len(DeviceInfos))} :
               /\ registry = NoKinds => was = NULL
               /\ \A k \in (1..Len(DeviceInfos)) \ Linked :
                     qdev_find_info_in(qdev_register(Registry, k), bus_info, name)
                        = IF HasName(k, bus_info, name) THEN k
                          ELSE IF was # NULL /\ HasName(was, bus_info, name) THEN was
                          ELSE IF HasAlias(k, bus_info, name) THEN k
                          ELSE was
               /\ \E byName \in {{i \in 1..Len(chain) : HasName(chain[i], bus_info, name)}},
                     byAlias \in {{i \in 1..Len(chain) : HasAlias(chain[i], bus_info, name)}} :
                     was = IF byName # {} THEN chain[Min(byName)]
                           ELSE IF byAlias # {} THEN chain[Min(byAlias)]
                           ELSE NULL
               /\ chain = device_info_list => was = qdev_find_info(bus_info, name)

\* C27, reached: the kind with the alias "blinker" registered after the kind
\* with that name, which the lookup returns all the same, and two kinds named
\* "nic", of which the lookup returns the later one, or with a filter the one
\* on that bus
C27_Witness ==
    /\ Running
    /\ Chain(registry, registry.device_info_list, Len(DeviceInfos)) = <<5, 1, 6, 3>>
    /\ qdev_find_info_in(Registry, NULL, s_blinker) = 1
    /\ qdev_find_info_in(Registry, NULL, s_nic) = 6
    /\ qdev_find_info_in(Registry, pci_bus_info, s_nic) = 3

\* C28: qdev_register of a kind that is in the list fails its assertion,
\* whichever kind it is; the chain of next pointers from the list head ends
\* and holds no kind twice, and every lookup returns.
C28_RegisterOnce ==
    Running =>
        /\ \A info \in Linked : qdev_register(Registry, info).aborted # ""
        /\ \E chain \in {Chain(registry, registry.device_info_list, Len(DeviceInfos) + 1)} :
              /\ Len(chain) <= Len(DeviceInfos)
              /\ \A i, j \in 1..Len(chain) : i # j => chain[i] # chain[j]
        /\ \A bus_info \in BusFilters, name \in LookupNames :
              qdev_find_info_in(Registry, bus_info, name) # Hangs

\* the place in the emitted list of field k of a descriptor that was walked
\* to its end: the fields that do not exist are left out
EmittedAt(vmsd, k) ==
    Cardinality({j \in 1..k : VMStateDescriptions[vmsd].fields[j].exists})

\* field k of the descriptor is an integer field that exists
IntegerField(vmsd, k) ==
    /\ VMStateDescriptions[vmsd].fields[k].exists
    /\ VMStateDescriptions[vmsd].fields[k].flags
          \cap {"VMS_STRUCT", "VMS_BUFFER", "VMS_VBUFFER", "VMS_QUEUE", "VMS_BITFIELD"} = {}

\* a walk of the descriptor over the state opaque emits, for every integer
\* field of size 1, 2, 4 or 8, the unsigned integer in each of its slots, and
\* fails an assertion if an integer field has another size
EmitsUnsigned(vmsd, opaque) ==
    \A full_buffers \in {0, 1} :
        \E r \in {parse_vmstate(vmsd, opaque, full_buffers, NewWalk)},
           fields \in {VMStateDescriptions[vmsd].fields} :
           IF \E k \in 1..Len(fields) :
                 IntegerField(vmsd, k) /\ fields[k].size \notin {1, 2, 4, 8}
           THEN r.aborted # ""
           ELSE /\ r.aborted = ""
                /\ \A k \in 1..Len(fields) :
                      IntegerField(vmsd, k) =>
                         \E q \in {r.qlist[EmittedAt(vmsd, k)]} :
                            /\ q.name = fields[k].name
                            /\ q.size = fields[k].size
                            /\ Len(q.elems) = ElemCount(fields[k])
                            /\ \A i \in 1..ElemCount(fields[k]) :
                                  \E e \in {IF "VMS_ARRAY" \in fields[k].flags
                                            THEN q.elems[i][1] ELSE q.elems[i]} :
                                     /\ e.type = "qint"
                                     /\ e.value = ZeroExtend(opaque[k][i], Int64Bytes)

\* C29: for an integer field of size 1, 2, 4 or 8 the introspector emits the
\* unsigned integer that the slot holds, whatever it holds, in the walk of the
\* device's descriptor and in the walk of every nested descriptor; an integer
\* field of another size fails the assertion.
C29_EmitsUnsigned ==
    Running =>
        /\ EmitsUnsigned(device_state.vmsd, device_state.opaque)
        /\ \A k \in 1..Len(VMStateDescriptions[device_state.vmsd].fields) :
              \E field \in {VMStateDescriptions[device_state.vmsd].fields[k]} :
                 "VMS_STRUCT" \in field.flags =>
                    \A i \in 1..ElemCount(field) :
                       EmitsUnsigned(field.vmsd, device_state.opaque[k][i])

\* C30: in every walk of a descriptor, nested walks included, the call of
\* parse_vmstate is followed at once by one call of the descriptor's pre_save
\* hook if it has one, before any field of the descriptor, and by no call of
\* a hook if it has none; a hook is called nowhere else.
C30_HookOncePerWalk ==
    Running =>
        \A full_buffers \in {0, 1} :
            \E ev \in {parse_vmstate(device_state.vmsd, device_state.opaque,
                                     full_buffers, NewWalk).events} :
               /\ ev # <<>> /\ ev[1] = <<"parse_vmstate", device_state.vmsd>>
               /\ \A j \in 1..Len(ev) :
                     /\ (ev[j][1] = "parse_vmstate"
                            /\ VMStateDescriptions[ev[j][2]].pre_save)
                           => (j < Len(ev) /\ ev[j + 1] = <<"pre_save", ev[j][2]>>)
                     /\ (ev[j][1] = "parse_vmstate"
                            /\ ~VMStateDescriptions[ev[j][2]].pre_save)
                           => (j = Len(ev) \/ ev[j + 1][1] # "pre_save")
                     /\ ev[j][1] = "pre_save"
                           => (j > 1 /\ ev[j - 1] = <<"parse_vmstate", ev[j][2]>>)

\* C30, reached: a descriptor without a hook that has two nested structures
\* whose descriptor has one: the hook of the nested descriptor is called
\* twice, once in either walk, and no other hook
C30_Witness ==
    /\ Running
    /\ device_state.vmsd = 2
    /\ device_state.opaque[4][2][1][1] = <<239, 190, 173, 222>>
    /\ \E ev \in {parse_vmstate(2, device_state.opaque, 0, NewWalk).events} :
          /\ Cardinality({j \in 1..Len(ev) : ev[j] = <<"pre_save", 3>>}) = 2
          /\ Cardinality({j \in 1..Len(ev) : ev[j][1] = "pre_save"}) = 2
          /\ Cardinality({j \in 1..Len(ev) : ev[j][1] = "parse_vmstate"}) = 3


InAlphabet(c) == \E i \in 1..Len(base) : base[i] = c
Did(call) == call \in b64.done
\* the text without its trailing padding
Unpadded(str) == SubSeq(str, 1, Stripped(str, Len(str)))
Malformed(str) ==
    \/ \E i \in 1..Len(str) : ~InAlphabet(str[i])
    \/ Len(str) % 4 = 1

ListsItsBuses(d) ==
    /\ \A i \in 1..Len(devs[d].child_bus) :
          /\ devs[d].child_bus[i] \in DOMAIN buses
          /\ buses[devs[d].child_bus[i]].parent = d
          /\ \A j \in 1..Len(devs[d].child_bus) :
                devs[d].child_bus[j] = devs[d].child_bus[i] => j = i
    /\ \A b \in DOMAIN buses :
          buses[b].parent = d => \E i \in 1..Len(devs[d].child_bus) : devs[d].child_bus[i] = b

\* C32: in every state, whatever qbus_create, qbus_create_inplace, qbus_free
\* and qdev_free did before, the num_child_bus of every live device is the
\* length of its child-bus list, which lists its buses, and is not negative.
C32_ChildBusCount ==
    \A d \in DOMAIN devs :
       /\ devs[d].num_child_bus = Len(devs[d].child_bus)
       /\ devs[d].num_child_bus >= 0
       /\ ListsItsBuses(d)

\* a device whose only child bus has the default name with number 1: it had
\* two buses, and the first was freed
C32_Witness ==
    \E d \in DOMAIN devs :
       /\ devs[d].num_child_bus = 1
       /\ Len(devs[d].child_bus) = 1
       /\ buses[devs[d].child_bus[1]].name
             \in {<<"p", "c", "i", ".", "1">>, devs[d].id \o <<".", "1">>}
====
